---------------------------- MODULE Spec2Model ----------------------------
(***************************************************************************)
(* A model of the LZW codec (src/lzw.py) and of the PackBits codec         *)
(* (src/packbits.py).                                                      *)
(*                                                                         *)
(* Byte strings are sequences of integers 0..255, bit strings (the Python  *)
(* str of '0'/'1' characters) are sequences of 0/1.  The encoder's and the *)
(* decoder's locals are the fields of the records e and d, named as in the *)
(* source.  Fields marked "history" are not program state: they record     *)
(* what the program did, for the properties to speak about.                *)
(***************************************************************************)
EXTENDS Integers, Sequences, FiniteSets, TLC

CLEAR_CODE == 256
END_OF_INFO_CODE == 257
MINBITS == 9
MAXBITS == 12
CODE_SIZE == 256
DefaultStripsize == 8192
DefaultBuffersize == 4096

\* Python's None where a code number may stand, and where a bytes value may
\* stand (a sequence that no byte string equals).
NoCode == -1
None == << -1 >>

(***************************************************************************)
(* Bounds of the model.                                                    *)
(***************************************************************************)
MaxLen == 4           \* short inputs: every byte string up to this length
MaxStrip == 3         \* short inputs: every stripsize 1..MaxStrip
AlphaBytes == {7, 8}  \* the byte values of the short inputs
\* maxbits values tried (minbits is the default 9): 9 makes the dictionary
\* fill after 254 codes, 10 after 766 codes with one width change.
MaxbitsChoices == {9, 10}
\* long inputs: Ramp(n) for these n, followed by one of Tails
RampLens == {255, 767}
Tails == {<<>>, <<7, 7, 7>>}
MaxPackLen == 6       \* pack: every input over AlphaBytes up to this length
MaxBuf == 3           \* pack: short inputs with every buffersize 1..MaxBuf
MaxEnd == 2           \* pack: the short ends around a long middle
\* pack: the long middles, around the limit of 128 of a chunk
RepLens == {127, 128, 129, 130, 256, 257}
AltLens == {126, 127, 128, 129, 130}
LongBuffers == {100, DefaultBuffersize}
RampStrip == 255      \* a stripsize that splits the long inputs
MaxQueued == 10       \* CodeWriter: the codes handed to write, in all
\* CodeWriter: the arrays handed to write: none, one code, one code wider
\* than bitlength, the doctest's six codes, eight codes (72 bits)
CodeArrays ==
    {<<>>, <<7>>, <<600>>, <<7, 258, 8, 8, 258, 6>>,
     <<0, 1, 2, 3, 4, 5, 6, 7>>}
MaxCodes == 3         \* decode: every code sequence up to this length over
DecCodes == {7, 256, 257, 258, 259}
MaxRaw == 5           \* unpack: every byte string up to this length over
RawBytes == {0, 1, 128, 129, 255}

VARIABLES
    EOI_IS_EOD,   \* the environment setting, TRUE when a nonempty string
    instream,     \* encode's input: the bytes to compress
    minbits, maxbits, stripsize,   \* encode's and decode's arguments
    pc,           \* where the run is: "read", "loop", "end", "encoded",
                  \* "decode", "done", "error"
    e,            \* the locals of encode
    d,            \* the locals of decode
    pk_in,        \* pack's input: the bytes to pack
    buffersize,   \* pack's argument
    ppc,          \* where the PackBits run is: "idle", "outer", "inner",
                  \* "packed", "unpack", "done"
    p,            \* the locals of pack
    u,            \* the locals of unpack
    fpc,          \* where the lzwfilter run is: "idle", "write", "failed",
                  \* "written", "codes", "lzw", "done", "error",
                  \* "cwrite", "flushed"
    cr,           \* the CodeReader object
    lr,           \* the LZWReader object
    cw,           \* the CodeWriter object
    lw,           \* the LZWWriter object
    run1          \* history: the outcome of the run before this one, kept
                  \* to compare two runs

params == <<EOI_IS_EOD, instream, minbits, maxbits, stripsize>>
lzwvars == <<EOI_IS_EOD, instream, minbits, maxbits, stripsize, pc, e, d>>
packvars == <<pk_in, buffersize, ppc, p, u>>
filtervars == <<fpc, cr, lr, cw, lw>>
vars == <<EOI_IS_EOD, instream, minbits, maxbits, stripsize, pc, e, d,
          pk_in, buffersize, ppc, p, u, fpc, cr, lr, cw, lw, run1>>

(***************************************************************************)
(* Conversions between numbers and bit strings.                            *)
(***************************************************************************)
RECURSIVE Bin(_)
\* the binary digits of n, most significant first, without leading zeros
Bin(n) == IF n < 2 THEN <<n>> ELSE Append(Bin(n \div 2), n % 2)

\* '{0:0{1}b}'.format(n, w) and format(n, '08b'): at least w digits
Format(n, w) ==
    LET b == Bin(n)
    IN  IF Len(b) >= w THEN b ELSE [j \in 1..(w - Len(b)) |-> 0] \o b

RECURSIVE BitsToInt(_)
\* int(bits, 2)
BitsToInt(bits) ==
    IF bits = <<>> THEN 0
    ELSE 2 * BitsToInt(SubSeq(bits, 1, Len(bits) - 1)) + bits[Len(bits)]

RECURSIVE bit_length(_)
\* int.bit_length()
bit_length(n) == IF n = 0 THEN 0 ELSE 1 + bit_length(n \div 2)

RECURSIVE Pow2(_)
Pow2(n) == IF n = 0 THEN 1 ELSE 2 * Pow2(n - 1)

\* bits.ljust(8, '0')
Ljust8(bits) ==
    IF Len(bits) >= 8 THEN bits ELSE bits \o [j \in 1..(8 - Len(bits)) |-> 0]

Min(a, b) == IF a <= b THEN a ELSE b

(***************************************************************************)
(* newdict                                                                 *)
(***************************************************************************)
\* newdict with empty strings where the two special codes go
newdict_EmptySpecials(specialcodes) ==
    [k \in 0..(IF specialcodes THEN 257 ELSE 255) |->
        IF k < 256 THEN <<k>> ELSE <<>>]

newdict(specialcodes) ==
    [k \in 0..(IF specialcodes THEN 257 ELSE 255) |->
        IF k < 256 THEN <<k>> ELSE None]

(***************************************************************************)
(* encode                                                                  *)
(***************************************************************************)
\* dict(map(reversed, newdict(False).items()))
initialize_string_table == [s \in {<<k>> : k \in 0..255} |-> s[1]]

\* the empty dict encode starts with and packstrip leaves after a strip
EmptyTable == [s \in {} |-> 0]

\* code_from_string.get(prefix, None)
Get(table, prefix) ==
    IF prefix \in DOMAIN table THEN table[prefix] ELSE NoCode

\* WholeBytes with the first bit of each eight as the byte's lowest
WholeBytes_LowFirst(bits) ==
    [j \in 1..(Len(bits) \div 8) |->
        BitsToInt([i \in 1..8 |-> bits[8 * j + 1 - i]])]

\* The bytes write_code ships in its while loop: the leading whole bytes of
\* the bit string.
WholeBytes(bits) ==
    [j \in 1..(Len(bits) \div 8) |-> BitsToInt(SubSeq(bits, 8 * j - 7, 8 * j))]

RestBits(bits) == SubSeq(bits, 8 * (Len(bits) \div 8) + 1, Len(bits))

RECURSIVE write_code(_, _)
\* clear_string_table: reinitialise, bitlength = minbits, write ClearCode
clear_string_table(s) ==
    write_code([s EXCEPT !.code_from_string = initialize_string_table,
                         !.bitlength = minbits,
                         !.gen = @ + 1],
               CLEAR_CODE)

\* write_code that never raises bitlength
write_code_NoBump(s, number) ==
    LET bits == IF number # NoCode
                THEN s.bitstream \o Format(number, s.bitlength)
                ELSE s.bitstream
        wc == IF number = CLEAR_CODE THEN CODE_SIZE ELSE s.writecount + 1
        rest == RestBits(bits)
        s1 == [s EXCEPT
                 !.outstream = @ \o WholeBytes(bits),
                 !.bitstream = rest,
                 !.writecount = wc,
                 !.codes = IF number = NoCode THEN @
                           ELSE Append(@, [code |-> number,
                                           width |-> s.bitlength,
                                           str |-> IF number < 256
                                                      \/ number > 257
                                                   THEN s.prefix ELSE <<>>,
                                           at |-> 8 * Len(s.outstream)
                                                  + Len(s.bitstream),
                                           wc |-> wc,
                                           next |-> Cardinality(
                                               DOMAIN s.code_from_string)
                                                    + 2])]
    IN  IF number = END_OF_INFO_CODE /\ rest # <<>>
        THEN [s1 EXCEPT !.outstream = Append(@, BitsToInt(Ljust8(rest))),
                        !.bitstream = <<>>]
        ELSE IF wc + 2 = Pow2(s.bitlength) /\ s.bitlength >= maxbits
        THEN clear_string_table(s1)
        ELSE s1

\* write_code raising bitlength, or clearing, one code late
write_code_OneLate(s, number) ==
    LET bits == IF number # NoCode
                THEN s.bitstream \o Format(number, s.bitlength)
                ELSE s.bitstream
        wc == IF number = CLEAR_CODE THEN CODE_SIZE ELSE s.writecount + 1
        rest == RestBits(bits)
        s1 == [s EXCEPT
                 !.outstream = @ \o WholeBytes(bits),
                 !.bitstream = rest,
                 !.writecount = wc,
                 !.codes = IF number = NoCode THEN @
                           ELSE Append(@, [code |-> number,
                                           width |-> s.bitlength,
                                           str |-> IF number < 256
                                                      \/ number > 257
                                                   THEN s.prefix ELSE <<>>,
                                           at |-> 8 * Len(s.outstream)
                                                  + Len(s.bitstream),
                                           wc |-> wc,
                                           next |-> Cardinality(
                                               DOMAIN s.code_from_string)
                                                    + 2])]
    IN  IF number = END_OF_INFO_CODE /\ rest # <<>>
        THEN [s1 EXCEPT !.outstream = Append(@, BitsToInt(Ljust8(rest))),
                        !.bitstream = <<>>]
        ELSE IF wc + 1 = Pow2(s.bitlength)
        THEN IF s.bitlength < maxbits
             THEN [s1 EXCEPT !.bitlength = @ + 1]
             ELSE clear_string_table(s1)
        ELSE s1

\* write_code: pack number at bitlength, ship the whole bytes, count
write_code(s, number) ==
    LET bits == IF number # NoCode
                THEN s.bitstream \o Format(number, s.bitlength)
                ELSE s.bitstream
        wc == IF number = CLEAR_CODE THEN CODE_SIZE ELSE s.writecount + 1
        rest == RestBits(bits)
        s1 == [s EXCEPT
                 !.outstream = @ \o WholeBytes(bits),
                 !.bitstream = rest,
                 !.writecount = wc,
                 !.codes = IF number = NoCode THEN @
                           ELSE Append(@, [code |-> number,
                                           width |-> s.bitlength,
                                           str |-> IF number < 256
                                                      \/ number > 257
                                                   THEN s.prefix ELSE <<>>,
                                           at |-> 8 * Len(s.outstream)
                                                  + Len(s.bitstream),
                                           wc |-> wc,
                                           next |-> Cardinality(
                                               DOMAIN s.code_from_string)
                                                    + 2])]
    IN  IF number = END_OF_INFO_CODE /\ rest # <<>>
        THEN [s1 EXCEPT !.outstream = Append(@, BitsToInt(Ljust8(rest))),
                        !.bitstream = <<>>]
        ELSE IF wc + 2 = Pow2(s.bitlength)
        THEN IF s.bitlength < maxbits
             THEN [s1 EXCEPT !.bitlength = @ + 1]
             ELSE clear_string_table(s1)
        ELSE s1

add_table_entry(s, entry) ==
    IF entry = <<>> THEN s
    ELSE LET newcode == Cardinality(DOMAIN s.code_from_string) + 2
         IN  [s EXCEPT
                !.code_from_string =
                    [x \in DOMAIN @ \cup {entry} |->
                        IF x = entry THEN newcode ELSE @[x]],
                !.added = @ \cup {<<s.gen, newcode, entry>>}]

\* encode's locals before its while loop
EncodeStart ==
    [writecount |-> CODE_SIZE,
     bitlength |-> minbits,
     bitstream |-> <<>>,
     prefix |-> <<>>,
     code_from_string |-> EmptyTable,
     outstream |-> <<>>,
     pos |-> 0,            \* instream's position
     strip |-> <<>>,       \* the strip read last
     k |-> 0,              \* bytes of the strip the for loop has taken
     codes |-> <<>>,       \* history: the codes written, in order, each
                           \* with its width, the string it stands for,
                           \* the bit offset it starts at, writecount
                           \* after it and the code the table would
                           \* assign next
     opens |-> {},         \* history: indices in codes of the ClearCodes
                           \* packstrip wrote before its for loop
     added |-> {},         \* history: <<generation, code, string>> added
     gen |-> 0,            \* history: ClearCodes written so far
     first |-> 1,          \* history: index in codes of the strip's first
     strips |-> 0]         \* history: strips finished so far

\* EncReadStrip without clear_string_table before the first strip
EncReadStrip_NoFirstClear ==
    /\ pc = "read"
    /\ e.pos < Len(instream)
    /\ LET n == Min(stripsize, Len(instream) - e.pos)
           s == [e EXCEPT !.strip = SubSeq(instream, e.pos + 1, e.pos + n),
                          !.pos = @ + n,
                          !.k = 0,
                          !.first = Len(e.codes) + 1]
       IN  e' = IF e.strips > 0 /\ ~EOI_IS_EOD
                THEN clear_string_table(
                         [s EXCEPT !.opens = @ \cup {Len(e.codes) + 1}])
                ELSE s
    /\ pc' = "loop"
    /\ UNCHANGED <<run1, filtervars, packvars, params, d>>

\* strip := instream.read(stripsize), a nonempty strip: packstrip up to the
\* for loop
EncReadStrip ==
    /\ pc = "read"
    /\ e.pos < Len(instream)
    /\ LET n == Min(stripsize, Len(instream) - e.pos)
           s == [e EXCEPT !.strip = SubSeq(instream, e.pos + 1, e.pos + n),
                          !.pos = @ + n,
                          !.k = 0,
                          !.first = Len(e.codes) + 1]
       IN  e' = IF Cardinality(DOMAIN e.code_from_string) = 0 \/ ~EOI_IS_EOD
                THEN clear_string_table(
                         [s EXCEPT !.opens = @ \cup {Len(e.codes) + 1}])
                ELSE s
    /\ pc' = "loop"
    /\ UNCHANGED <<run1, filtervars, packvars, params, d>>

\* one iteration of packstrip's for loop
EncByte ==
    /\ pc = "loop"
    /\ e.k < Len(e.strip)
    /\ LET byte == <<e.strip[e.k + 1]>>
           s == [e EXCEPT !.k = @ + 1]
       IN  e' = IF e.prefix \o byte \in DOMAIN e.code_from_string
                THEN [s EXCEPT !.prefix = @ \o byte]
                ELSE [add_table_entry(
                          write_code(s, Get(e.code_from_string, e.prefix)),
                          e.prefix \o byte)
                      EXCEPT !.prefix = byte]
    /\ UNCHANGED <<run1, filtervars, packvars, params, pc, d>>

\* EncStripEnd without the EOI at the end of the strip
EncStripEnd_NoEOI ==
    /\ pc = "loop"
    /\ e.k = Len(e.strip)
    /\ LET s == [e EXCEPT !.strips = @ + 1]
       IN  e' = IF ~EOI_IS_EOD
                THEN [write_code(s, Get(e.code_from_string, e.prefix))
                      EXCEPT !.prefix = <<>>,
                             !.code_from_string = EmptyTable]
                ELSE s
    /\ pc' = "read"
    /\ UNCHANGED <<run1, filtervars, packvars, params, d>>

\* packstrip after the for loop
EncStripEnd ==
    /\ pc = "loop"
    /\ e.k = Len(e.strip)
    /\ LET s == [e EXCEPT !.strips = @ + 1]
       IN  e' = IF ~EOI_IS_EOD
                THEN [write_code(
                          [write_code(s, Get(e.code_from_string, e.prefix))
                           EXCEPT !.prefix = <<>>],
                          END_OF_INFO_CODE)
                      EXCEPT !.code_from_string = EmptyTable]
                ELSE s
    /\ pc' = "read"
    /\ UNCHANGED <<run1, filtervars, packvars, params, d>>

\* EncEndOfData without the EOI at the end of all data
EncEndOfData_NoEOI ==
    /\ pc = "read"
    /\ e.pos = Len(instream)
    /\ e' = IF EOI_IS_EOD
            THEN write_code(e, Get(e.code_from_string, e.prefix))
            ELSE e
    /\ pc' = "encoded"
    /\ UNCHANGED <<run1, filtervars, packvars, params, d>>

\* instream.read returns b'': the loop ends, packstrip(b'') if EOI_IS_EOD
EncEndOfData ==
    /\ pc = "read"
    /\ e.pos = Len(instream)
    /\ e' = IF EOI_IS_EOD
            THEN write_code(write_code(e, Get(e.code_from_string, e.prefix)),
                            END_OF_INFO_CODE)
            ELSE e
    /\ pc' = "encoded"
    /\ UNCHANGED <<run1, filtervars, packvars, params, d>>

\* encode has returned: it is called again on the same input, with the
\* environment variable EOI_IS_EOD set the other way
EncodeAgain ==
    /\ pc = "encoded"
    /\ ~run1.done
    /\ run1' = [run1 EXCEPT !.done = TRUE,
                            !.eod = EOI_IS_EOD,
                            !.outstream = e.outstream,
                            !.pc = pc]
    /\ EOI_IS_EOD' = ~EOI_IS_EOD
    /\ e' = EncodeStart
    /\ pc' = "read"
    /\ UNCHANGED <<filtervars, packvars, instream, minbits, maxbits,
                   stripsize, d>>

(***************************************************************************)
(* decode                                                                  *)
(***************************************************************************)
\* decode's locals before it starts (no decode is running)
DecodeIdle ==
    [instream |-> <<>>, specialcodes |-> TRUE, pos |-> 0, bitstream |-> <<>>,
     bitlength |-> 0, codedict |-> <<>>, lastvalue |-> None,
     end_of_data |-> FALSE, outstream |-> <<>>, codegenerator |-> None,
     codes |-> <<>>, gen |-> 0, stored |-> <<>>]

\* decode's locals before its for loop
DecodeStart(bytes, specialcodes) ==
    [instream |-> bytes,            \* the LZW data to decode
     specialcodes |-> specialcodes,
     pos |-> 0,                     \* instream's position
     bitstream |-> <<>>,
     bitlength |-> minbits,
     codedict |-> newdict(specialcodes),
     lastvalue |-> None,
     end_of_data |-> FALSE,
     outstream |-> <<>>,
     codegenerator |-> None,  \* the codes still to come, when decode is
                              \* given an iterator of codes
     codes |-> <<>>,      \* history: the codes read, in order
     gen |-> 0,           \* history: ClearCodes processed so far
     stored |-> <<>>]     \* history: <<generation, index, string>> stored last

\* codevalue[0:1]
First1(bytes) == IF bytes = <<>> THEN <<>> ELSE <<bytes[1]>>

RECURSIVE nextcode_IgnoreEOD(_)
\* nextcode reading on although end_of_data is set
nextcode_IgnoreEOD(s) ==
    IF s.pos = Len(s.instream)
    THEN [s |-> s, code |-> NoCode, width |-> 0, error |-> FALSE]
    ELSE LET rawbyte == s.instream[s.pos + 1]
             bits == s.bitstream \o Format(rawbyte, 8)
             s1 == [s EXCEPT !.pos = @ + 1, !.bitstream = bits]
         IN  IF Len(bits) >= s.bitlength
             THEN LET code == BitsToInt(SubSeq(bits, 1, s.bitlength))
                      rest == SubSeq(bits, s.bitlength + 1, Len(bits))
                      nonzero == \E j \in 1..Len(rest) : rest[j] # 0
                  IN  [s |-> [s1 EXCEPT !.bitstream =
                                  IF code = END_OF_INFO_CODE /\ ~nonzero
                                  THEN <<>> ELSE rest],
                       code |-> code,
                       width |-> s.bitlength,
                       error |-> code = END_OF_INFO_CODE /\ nonzero]
             ELSE nextcode_IgnoreEOD(s1)

RECURSIVE nextcode_PadsLast(_)
\* nextcode yielding the bits left at the end of the input as a last code,
\* padded with zeros
nextcode_PadsLast(s) ==
    IF s.end_of_data \/ (s.pos = Len(s.instream) /\ s.bitstream = <<>>)
    THEN [s |-> s, code |-> NoCode, width |-> 0, error |-> FALSE]
    ELSE IF s.pos = Len(s.instream)
    THEN [s |-> [s EXCEPT !.bitstream = <<>>],
          code |-> BitsToInt(s.bitstream
                      \o [j \in 1..(s.bitlength - Len(s.bitstream)) |-> 0]),
          width |-> s.bitlength,
          error |-> FALSE]
    ELSE LET rawbyte == s.instream[s.pos + 1]
             bits == s.bitstream \o Format(rawbyte, 8)
             s1 == [s EXCEPT !.pos = @ + 1, !.bitstream = bits]
         IN  IF Len(bits) >= s.bitlength
             THEN LET code == BitsToInt(SubSeq(bits, 1, s.bitlength))
                      rest == SubSeq(bits, s.bitlength + 1, Len(bits))
                      nonzero == \E j \in 1..Len(rest) : rest[j] # 0
                  IN  [s |-> [s1 EXCEPT !.bitstream =
                                  IF code = END_OF_INFO_CODE /\ ~nonzero
                                  THEN <<>> ELSE rest],
                       code |-> code,
                       width |-> s.bitlength,
                       error |-> code = END_OF_INFO_CODE /\ nonzero]
             ELSE nextcode_PadsLast(s1)

RECURSIVE nextcode_DropsBits(_)
\* nextcode emptying the bit buffer at an EOI without looking at the bits
nextcode_DropsBits(s) ==
    IF s.end_of_data \/ s.pos = Len(s.instream)
    THEN [s |-> s, code |-> NoCode, width |-> 0, error |-> FALSE]
    ELSE LET rawbyte == s.instream[s.pos + 1]
             bits == s.bitstream \o Format(rawbyte, 8)
             s1 == [s EXCEPT !.pos = @ + 1, !.bitstream = bits]
         IN  IF Len(bits) >= s.bitlength
             THEN LET code == BitsToInt(SubSeq(bits, 1, s.bitlength))
                      rest == SubSeq(bits, s.bitlength + 1, Len(bits))
                  IN  [s |-> [s1 EXCEPT !.bitstream =
                                  IF code = END_OF_INFO_CODE
                                  THEN <<>> ELSE rest],
                       code |-> code,
                       width |-> s.bitlength,
                       error |-> FALSE]
             ELSE nextcode_DropsBits(s1)

RECURSIVE nextcode(_)
\* One resumption of the generator: read bytes until a code is complete.
\* code = NoCode: the generator is exhausted; error: ValueError was raised.
nextcode(s) ==
    IF s.end_of_data \/ s.pos = Len(s.instream)
    THEN [s |-> s, code |-> NoCode, width |-> 0, error |-> FALSE]
    ELSE LET rawbyte == s.instream[s.pos + 1]
             bits == s.bitstream \o Format(rawbyte, 8)
             s1 == [s EXCEPT !.pos = @ + 1, !.bitstream = bits]
         IN  IF Len(bits) >= s.bitlength
             THEN LET code == BitsToInt(SubSeq(bits, 1, s.bitlength))
                      rest == SubSeq(bits, s.bitlength + 1, Len(bits))
                      nonzero == \E j \in 1..Len(rest) : rest[j] # 0
                  IN  [s |-> [s1 EXCEPT !.bitstream =
                                  IF code = END_OF_INFO_CODE /\ ~nonzero
                                  THEN <<>> ELSE rest],
                       code |-> code,
                       width |-> s.bitlength,
                       error |-> code = END_OF_INFO_CODE /\ nonzero]
             ELSE nextcode(s1)

\* decode's locals before its for loop when it is given the codes
DecodeCodes(codes, specialcodes) ==
    [DecodeStart(<<>>, specialcodes) EXCEPT !.codegenerator = codes]

\* One step of the for loop's iterator: nextcode(instream), or the iterator
\* decode was given.
codegenerator(s) ==
    IF s.codegenerator = None THEN nextcode(s)
    ELSE IF s.codegenerator = <<>>
    THEN [s |-> s, code |-> NoCode, width |-> 0, error |-> FALSE]
    ELSE [s |-> [s EXCEPT !.codegenerator = Tail(@)],
          code |-> Head(s.codegenerator),
          width |-> 0,
          error |-> FALSE]

\* insert raising bitlength without looking at maxbits
insert_NoCap(s, bytestring) ==
    LET newkey == Cardinality(DOMAIN s.codedict)
    IN  [s EXCEPT
           !.codedict = [c \in 0..newkey |->
                            IF c = newkey THEN bytestring ELSE @[c]],
           !.bitlength =
               IF bit_length(newkey + 2) = bit_length(newkey + 1) + 1
               THEN @ + 1 ELSE @,
           !.stored = <<s.gen, newkey, bytestring>>]

\* insert raising bitlength one entry late
insert_OneLate(s, bytestring) ==
    LET newkey == Cardinality(DOMAIN s.codedict)
    IN  [s EXCEPT
           !.codedict = [c \in 0..newkey |->
                            IF c = newkey THEN bytestring ELSE @[c]],
           !.bitlength =
               IF bit_length(newkey + 1) = bit_length(newkey) + 1
                  /\ @ < maxbits
               THEN @ + 1 ELSE @,
           !.stored = <<s.gen, newkey, bytestring>>]

\* AddStringToTable
insert(s, bytestring) ==
    LET newkey == Cardinality(DOMAIN s.codedict)
    IN  [s EXCEPT
           !.codedict = [c \in 0..newkey |->
                            IF c = newkey THEN bytestring ELSE @[c]],
           !.bitlength =
               IF bit_length(newkey + 2) = bit_length(newkey + 1) + 1
                  /\ @ < maxbits
               THEN @ + 1 ELSE @,
           !.stored = <<s.gen, newkey, bytestring>>]

\* What the for loop's body computes for a code before it acts.
CodeValue(s, code) ==
    IF code \in DOMAIN s.codedict THEN s.codedict[code]
    ELSE IF code - 1 \in DOMAIN s.codedict /\ s.lastvalue # None
    THEN s.lastvalue \o First1(s.lastvalue)
    ELSE None

\* StoreValue extending the previous string by its own first byte for a
\* code that is in the table
StoreValue_FirstOfPrevious(s, code) ==
    IF code \in DOMAIN s.codedict
    THEN IF s.lastvalue = None \/ s.codedict[code] = None
         THEN None
         ELSE s.lastvalue \o First1(s.lastvalue)
    ELSE CodeValue(s, code)

\* storevalue, the string the body is to add to the table (None: nothing)
StoreValue(s, code) ==
    IF code \in DOMAIN s.codedict
    THEN IF s.lastvalue = None \/ s.codedict[code] = None
         THEN None
         ELSE s.lastvalue \o First1(s.codedict[code])
    ELSE CodeValue(s, code)

\* Invalid without the test for a missing previous string
Invalid_NoPrev(s, code) ==
    code \notin DOMAIN s.codedict /\ (code - 1) \notin DOMAIN s.codedict

\* the body raises ValueError('Invalid LZW data ...')
Invalid(s, code) ==
    code \notin DOMAIN s.codedict /\ CodeValue(s, code) = None

\* DecodeBody treating an EOI as a ClearCode when EOI_IS_EOD is unset
DecodeBody_EOIClears(s, code) ==
    LET codevalue == CodeValue(s, code)
        storevalue == StoreValue(s, code)
    IN  IF codevalue # None
        THEN LET s1 == [s EXCEPT !.outstream = @ \o codevalue]
                 s2 == IF storevalue # None THEN insert(s1, storevalue)
                       ELSE s1
             IN  [s2 EXCEPT !.lastvalue = codevalue]
        ELSE IF code = END_OF_INFO_CODE /\ EOI_IS_EOD
        THEN [s EXCEPT !.end_of_data = TRUE]
        ELSE [s EXCEPT !.codedict = newdict(s.specialcodes),
                       !.bitlength = minbits,
                       !.lastvalue = None,
                       !.gen = @ + 1]

\* the for loop's body on a code that is not invalid
DecodeBody(s, code) ==
    LET codevalue == CodeValue(s, code)
        storevalue == StoreValue(s, code)
    IN  IF codevalue # None
        THEN LET s1 == [s EXCEPT !.outstream = @ \o codevalue]
                 s2 == IF storevalue # None THEN insert(s1, storevalue)
                       ELSE s1
             IN  [s2 EXCEPT !.lastvalue = codevalue]
        ELSE IF code = END_OF_INFO_CODE
        THEN IF EOI_IS_EOD
             THEN [s EXCEPT !.end_of_data = TRUE]
             ELSE [s EXCEPT !.bitlength = minbits]
        ELSE [s EXCEPT !.codedict = newdict(s.specialcodes),
                       !.bitlength = minbits,
                       !.lastvalue = None,
                       !.gen = @ + 1]

\* the encoded bytes are handed to decode (the doctest of encode)
StartDecode ==
    /\ pc = "encoded"
    /\ d' = DecodeStart(e.outstream, TRUE)
    /\ pc' = "decode"
    /\ UNCHANGED <<run1, filtervars, packvars, params, e>>

\* the generator yields a code and the for loop's body runs on it, or
\* ValueError is raised by the generator or by the body
DecCode ==
    /\ pc = "decode"
    /\ LET r == codegenerator(d)
           s == [r.s EXCEPT !.codes =
                    Append(@, [code |-> r.code, width |-> r.width,
                               str |-> IF CodeValue(r.s, r.code) = None
                                       THEN <<>>
                                       ELSE CodeValue(r.s, r.code)])]
       IN  /\ r.code # NoCode
           /\ IF r.error \/ Invalid(r.s, r.code)
              THEN d' = s /\ pc' = "error"
              ELSE d' = DecodeBody(s, r.code) /\ pc' = "decode"
    /\ UNCHANGED <<run1, filtervars, packvars, params, e>>

\* the generator is exhausted: decode returns
DecReturn ==
    /\ pc = "decode"
    /\ LET r == codegenerator(d)
       IN  r.code = NoCode /\ d' = r.s
    /\ pc' = "done"
    /\ UNCHANGED <<run1, filtervars, packvars, params, e>>

(***************************************************************************)
(* packbits.unpack                                                         *)
(***************************************************************************)
\* unpack's locals before its while loop
UnpackStart(bytes, frompack) ==
    [instream |-> bytes,       \* the PackBits data to unpack
     pos |-> 0,                \* instream's position
     outstream |-> <<>>,
     hdrs |-> <<>>,            \* history: the header bytes taken
     frompack |-> frompack]    \* history: instream is what pack wrote

\* instream.read(n) at position pos: the bytes that are left, at most n
ReadAt(bytes, pos, n) == SubSeq(bytes, pos + 1, Min(pos + n, Len(bytes)))

\* bytes * count
Times(bytes, count) ==
    [j \in 1..(Len(bytes) * count) |-> bytes[((j - 1) % Len(bytes)) + 1]]

\* Repeats with the count one too small
Repeats_OffByOne(n) == 256 - n

\* how many times unpack writes the byte that follows header n
Repeats(n) == 257 - n

\* one iteration of unpack's while loop
UnpackStep ==
    /\ ppc = "unpack"
    /\ u.pos < Len(u.instream)
    /\ LET n == u.instream[u.pos + 1]
           got == IF n < 128 THEN ReadAt(u.instream, u.pos + 1, n + 1)
                  ELSE IF n # 128 THEN ReadAt(u.instream, u.pos + 1, 1)
                  ELSE <<>>
       IN  u' = [u EXCEPT
                   !.pos = @ + 1 + Len(got),
                   !.outstream = IF n < 128 THEN @ \o got
                                 ELSE IF n # 128
                                 THEN @ \o Times(got, Repeats(n))
                                 ELSE @,
                   !.hdrs = Append(@, n)]
    /\ UNCHANGED <<run1, filtervars, lzwvars, pk_in, buffersize, ppc, p>>

\* instream.read(1) returns b'': unpack returns
UnpackEnd ==
    /\ ppc = "unpack"
    /\ u.pos = Len(u.instream)
    /\ ppc' = "done"
    /\ UNCHANGED <<run1, filtervars, lzwvars, pk_in, buffersize, p, u>>

(***************************************************************************)
(* packbits.pack                                                           *)
(* A chunk is <<count, bytes>>: count 1 marks a literal, count 0 the end   *)
(* of data marker, any other count a replicate run of the one byte.        *)
(***************************************************************************)
\* pack's locals before its while loop
PackStart ==
    [bytestring |-> <<>>,
     nextblock |-> <<>>,
     chunks |-> << <<1, <<>>>> >>,
     pos |-> 0,            \* instream's position
     outstream |-> <<>>,
     shipped |-> <<>>]     \* history: what each chunk shipped wrote

\* RepHeader with the header one too small
RepHeader_OffByOne(count) == 256 - count

\* the header byte of a replicate run
RepHeader(count) == 257 - count

RECURSIVE ship(_)
\* the byte strings ship writes for a chunk, one for each chunk written
ship(chunk) ==
    IF chunk[1] = 1
    THEN IF Len(chunk[2]) # 0
         THEN << <<Len(chunk[2]) - 1>> \o chunk[2] >>
         ELSE <<>>
    ELSE IF chunk[1] # 0
    THEN IF chunk[1] > 128
         THEN ship(<<128, chunk[2]>>) \o ship(<<chunk[1] - 128, chunk[2]>>)
         ELSE IF RepHeader(chunk[1]) \in 0..255
         THEN << <<RepHeader(chunk[1])>> \o chunk[2] >>
         ELSE <<>>
    ELSE <<chunk[2]>>

RECURSIVE Concat(_)
\* the concatenation of a sequence of sequences
Concat(ss) == IF ss = <<>> THEN <<>> ELSE ss[1] \o Concat(Tail(ss))

\* purge that does not append the end of data marker
purge_NoMarker(s, final) ==
    LET cs == IF final
              THEN s.chunks \o << <<1, <<>>>> >>
              ELSE s.chunks
        written == Concat([j \in 1..(Len(cs) - 1) |-> ship(cs[j])])
    IN  [s EXCEPT !.chunks = <<cs[Len(cs)]>>,
                  !.outstream = @ \o Concat(written),
                  !.shipped = @ \o written]

\* purge: ship every chunk but the last and drop them from the list
purge(s, final) ==
    LET cs == IF final
              THEN s.chunks \o << <<0, <<128>>>>, <<1, <<>>>> >>
              ELSE s.chunks
        written == Concat([j \in 1..(Len(cs) - 1) |-> ship(cs[j])])
    IN  [s EXCEPT !.chunks = <<cs[Len(cs)]>>,
                  !.outstream = @ \o Concat(written),
                  !.shipped = @ \o written]

\* len(bytestring) - len(bytestring.lstrip(byte)): the length of the leading
\* run
RunLength(bytes) ==
    CHOOSE c \in 1..Len(bytes) :
        /\ \A j \in 1..c : bytes[j] = bytes[1]
        /\ c = Len(bytes) \/ bytes[c + 1] # bytes[1]

\* LiteralFits letting a literal chunk grow to 129 bytes
LiteralFits_Loose(chunk, count) ==
    chunk[1] = 1 /\ Len(chunk[2]) < 130 - count

\* the run of count bytes is added to the literal chunk
LiteralFits(chunk, count) ==
    chunk[1] = 1 /\ Len(chunk[2]) < 129 - count

\* the if/elif/else on the chunk list for a run of count copies of byte
AddRun(chunks, count, byte) ==
    LET n == Len(chunks)
        last == chunks[n]
    IN  IF count < 3
        THEN IF LiteralFits(last, count)
             THEN [chunks EXCEPT ![n] = <<1, last[2] \o Times(byte, count)>>]
             ELSE Append(chunks, <<count, byte>>)
        ELSE IF last[1] # 1 /\ last[2] = byte
        THEN [chunks EXCEPT ![n] = <<last[1] + count, byte>>]
        ELSE Append(chunks, <<count, byte>>)

\* the outer while's test and the line after it: read the next block, and
\* at the end of the input purge(chunks, True)
PackOuter ==
    /\ ppc = "outer"
    /\ IF p.bytestring # <<>>
       THEN /\ p' = [p EXCEPT !.bytestring = @ \o p.nextblock]
            /\ ppc' = "inner"
       ELSE LET block == ReadAt(pk_in, p.pos, buffersize)
                s == [p EXCEPT !.nextblock = block,
                               !.pos = @ + Len(block)]
            IN  IF block # <<>>
                THEN /\ p' = [s EXCEPT !.bytestring = @ \o block]
                     /\ ppc' = "inner"
                ELSE /\ p' = purge(s, TRUE)
                     /\ ppc' = "packed"
    /\ UNCHANGED <<run1, filtervars, lzwvars, pk_in, buffersize, u>>

\* one iteration of the inner while loop
PackRun ==
    /\ ppc = "inner"
    /\ LET s1 == IF Len(p.bytestring) < 128
                 THEN LET block == ReadAt(pk_in, p.pos, buffersize)
                      IN  purge([p EXCEPT !.bytestring = @ \o block,
                                          !.pos = @ + Len(block)],
                                FALSE)
                 ELSE p
           byte == <<s1.bytestring[1]>>
           count == RunLength(s1.bytestring)
           substring == SubSeq(s1.bytestring, count + 1, Len(s1.bytestring))
       IN  /\ p' = [s1 EXCEPT !.chunks = AddRun(@, count, byte),
                              !.bytestring = substring]
           /\ ppc' = IF substring = <<>> THEN "outer" ELSE "inner"
    /\ UNCHANGED <<run1, filtervars, lzwvars, pk_in, buffersize, u>>

\* what pack wrote is handed to unpack (the doctest of pack)
StartUnpack ==
    /\ ppc = "packed"
    /\ u' = UnpackStart(p.outstream, TRUE)
    /\ ppc' = "unpack"
    /\ UNCHANGED <<run1, filtervars, lzwvars, pk_in, buffersize, p>>

(***************************************************************************)
(* lzwfilter.CodeReader and lzwfilter.LZWReader                            *)
(***************************************************************************)
STRINGTABLE == [k \in 0..255 |-> <<k>>]

\* the CodeReader object after __init__
CodeReaderStart(bytes, mb) ==
    [stream |-> bytes,        \* the underlying stream
     pos |-> 0,               \* its position
     bitlength |-> MINBITS,
     minbits |-> MINBITS,
     maxbits |-> mb,
     bitstream |-> <<>>,
     result |-> <<>>,         \* read(): the codes returned so far
     padded |-> 0]            \* history: zero bits added at the end of file

RECURSIVE CodeReader_next_NoPad(_)
\* CodeReader.__next__ stopping at the end of file although bits are left
CodeReader_next_NoPad(c) ==
    IF Len(c.bitstream) >= c.bitlength
    THEN [c |-> [c EXCEPT !.bitstream =
                     SubSeq(@, c.bitlength + 1, Len(@))],
          code |-> BitsToInt(SubSeq(c.bitstream, 1, c.bitlength)),
          stop |-> FALSE]
    ELSE IF c.pos = Len(c.stream)
    THEN [c |-> c, code |-> NoCode, stop |-> TRUE]
    ELSE CodeReader_next_NoPad(
             [c EXCEPT !.pos = @ + 1,
                       !.bitstream = @ \o Format(c.stream[c.pos + 1], 8)])

RECURSIVE CodeReader_next(_)
\* CodeReader.__next__: stop is StopIteration
CodeReader_next(c) ==
    IF Len(c.bitstream) >= c.bitlength
    THEN [c |-> [c EXCEPT !.bitstream =
                     SubSeq(@, c.bitlength + 1, Len(@))],
          code |-> BitsToInt(SubSeq(c.bitstream, 1, c.bitlength)),
          stop |-> FALSE]
    ELSE IF c.pos = Len(c.stream)
    THEN IF c.bitstream = <<>>
         THEN [c |-> c, code |-> NoCode, stop |-> TRUE]
         ELSE LET n == c.bitlength - Len(c.bitstream)
              IN  CodeReader_next(
                      [c EXCEPT !.bitstream = @ \o [j \in 1..n |-> 0],
                                !.padded = @ + n])
    ELSE CodeReader_next(
             [c EXCEPT !.pos = @ + 1,
                       !.bitstream = @ \o Format(c.stream[c.pos + 1], 8)])

\* LZWReader.initialize_table: the table, and the code source's bitlength
initialize_table(special) ==
    IF special
    THEN [k \in 0..257 |-> IF k < 256 THEN STRINGTABLE[k] ELSE None]
    ELSE STRINGTABLE

\* the LZWReader object after __init__
LZWReaderStart(special) ==
    [special |-> special,
     codedict |-> initialize_table(special),
     oldcode |-> NoCode,
     buffer |-> <<>>,
     codes |-> <<>>,          \* history: the codes taken from the source
     error |-> "none"]

\* LZWReader.add_string_to_table on the pair <<code source, reader>>
add_string_to_table(c, l, bytestring) ==
    LET newkey == Cardinality(DOMAIN l.codedict)
    IN  [c |-> [c EXCEPT !.bitlength =
                    IF bit_length(newkey + 2) = bit_length(newkey + 1) + 1
                       /\ @ < c.maxbits
                    THEN @ + 1 ELSE @],
         l |-> [l EXCEPT !.codedict =
                    [k \in 0..newkey |->
                        IF k = newkey THEN bytestring ELSE @[k]]]]

\* codedict[key] raises KeyError
KeyError(l, key) == key \notin DOMAIN l.codedict

\* LZWReader.__next__: chunk is the string returned; stop is StopIteration;
\* error names the exception raised, "none" if none
LZWReader_next(c, l) ==
    LET n == CodeReader_next(c)
        code == n.code
        c1 == n.c
        l1 == [l EXCEPT !.codes = Append(@, code)]
        quiet(cc, ll) ==
            [c |-> cc, l |-> ll, chunk |-> <<>>, stop |-> TRUE]
        raise(cc, ll, what) ==
            [c |-> cc, l |-> [ll EXCEPT !.error = what], chunk |-> <<>>,
             stop |-> FALSE]
        done(cl, outstring, storestring) ==
            LET a == IF storestring # None
                     THEN add_string_to_table(cl.c, cl.l, storestring)
                     ELSE cl
            IN  [c |-> a.c, l |-> [a.l EXCEPT !.oldcode = code],
                 chunk |-> IF outstring = None THEN <<>> ELSE outstring,
                 stop |-> FALSE]
    IN  IF n.stop THEN quiet(c, l)
        ELSE IF code = END_OF_INFO_CODE /\ l.special
        THEN IF \E j \in 1..Len(c1.bitstream) : c1.bitstream[j] # 0
             THEN raise(c1, l1, "ValueError")
             ELSE quiet([c1 EXCEPT !.bitstream = <<>>], l1)
        ELSE IF code = CLEAR_CODE /\ l.special
        THEN done([c |-> [c1 EXCEPT !.bitlength = c1.minbits],
                   l |-> [l1 EXCEPT !.codedict = initialize_table(TRUE)]],
                  None, None)
        ELSE IF code \in DOMAIN l.codedict
        THEN LET outstring == l.codedict[code]
                 storestring ==
                     IF KeyError(l, l.oldcode) THEN None
                     ELSE IF l.codedict[l.oldcode] = None
                             \/ outstring = None
                     THEN None
                     ELSE l.codedict[l.oldcode] \o First1(outstring)
             IN  done([c |-> c1, l |-> l1], outstring, storestring)
        ELSE IF KeyError(l, l.oldcode) THEN raise(c1, l1, "KeyError")
        ELSE IF l.codedict[l.oldcode] = None THEN raise(c1, l1, "TypeError")
        ELSE LET outstring == l.codedict[l.oldcode]
                                \o First1(l.codedict[l.oldcode])
             IN  done([c |-> c1, l |-> l1], outstring, outstring)

\* CodeReader.read: one turn of its loop
CodesRead ==
    /\ fpc = "codes"
    /\ LET n == CodeReader_next(cr)
       IN  IF n.stop
           THEN cr' = n.c /\ fpc' = "done"
           ELSE cr' = [n.c EXCEPT !.result = Append(@, n.code)]
                /\ fpc' = "codes"
    /\ UNCHANGED <<run1, lzwvars, packvars, lr, cw, lw>>

\* LZWReader.read: one turn of its loop
LZWRead ==
    /\ fpc = "lzw"
    /\ LET n == LZWReader_next(cr, lr)
       IN  /\ cr' = n.c
           /\ lr' = [n.l EXCEPT !.buffer = @ \o n.chunk]
           /\ fpc' = IF n.l.error # "none" THEN "error"
                     ELSE IF n.stop THEN "done" ELSE "lzw"
    /\ UNCHANGED <<run1, lzwvars, packvars, cw, lw>>

(***************************************************************************)
(* lzwfilter.CodeWriter and lzwfilter.LZWWriter                            *)
(* CodeWriter.bitstream is a Python int: it is kept here as its binary     *)
(* digits, at least `bits` of them.  More digits than `bits` means that a  *)
(* number wider than bitlength was or-ed in.  The bytes handed to          *)
(* BufferedWriter.write stay in `buffered` until super().flush(); the      *)
(* outputs here stay under BUFFER_SIZE, so nothing is flushed earlier.     *)
(***************************************************************************)
CODETABLE == [s \in {<<k>> : k \in 0..255} |-> s[1]]

\* a | b on the binary digits of a and b
BitOr(a, b) ==
    LET n == IF Len(a) >= Len(b) THEN Len(a) ELSE Len(b)
        pa == [j \in 1..(n - Len(a)) |-> 0] \o a
        pb == [j \in 1..(n - Len(b)) |-> 0] \o b
    IN  [j \in 1..n |-> IF pa[j] = 1 \/ pb[j] = 1 THEN 1 ELSE 0]

\* bitstream.to_bytes(count, 'big') of 8 * count digits
to_bytes(bits, count) ==
    [j \in 1..count |-> BitsToInt(SubSeq(bits, 8 * j - 7, 8 * j))]

RECURSIVE queue(_, _)
\* the for loop of CodeWriter.write
queue(w, array) ==
    IF array = <<>> THEN w
    ELSE queue([w EXCEPT
                  !.bitstream = BitOr(@ \o [j \in 1..w.bitlength |-> 0],
                                      Bin(array[1])),
                  !.bits = @ + w.bitlength,
                  !.codes = Append(@, [code |-> array[1],
                                       width |-> w.bitlength])],
               Tail(array))

\* CodeWriter.write; error names the exception raised, "none" if none
CodeWriter_write(w, array) ==
    LET q == [queue(w, array) EXCEPT !.written = 0]
    IN  IF q.bits # 0 /\ q.bits % 8 = 0
        THEN IF Len(q.bitstream) > q.bits
             THEN [q EXCEPT !.error = "OverflowError"]
             ELSE [q EXCEPT !.buffered =
                               @ \o to_bytes(q.bitstream, q.bits \div 8),
                            !.bitstream = <<>>,
                            !.bits = 0,
                            !.written = q.bits \div 8]
        ELSE q

\* CodeWriter.flush filling the last byte with ones
CodeWriter_flush_PadsOnes(w, final) ==
    LET w1 == IF w.special /\ final
              THEN CodeWriter_write(w, <<END_OF_INFO_CODE>>)
              ELSE w
        over == w1.bits % 8
        w2 == IF over # 0
              THEN CodeWriter_write(
                       [w1 EXCEPT
                          !.bitstream = @ \o [j \in 1..(8 - over) |-> 1],
                          !.bits = @ + (8 - over)],
                       <<>>)
              ELSE w1
    IN  IF w1.error # "none" THEN w1
        ELSE IF w2.error # "none" THEN w2
        ELSE [w2 EXCEPT !.stream = @ \o w2.buffered, !.buffered = <<>>]

\* CodeWriter.flush
CodeWriter_flush(w, final) ==
    LET w1 == IF w.special /\ final
              THEN CodeWriter_write(w, <<END_OF_INFO_CODE>>)
              ELSE w
        over == w1.bits % 8
        w2 == IF over # 0
              THEN CodeWriter_write(
                       [w1 EXCEPT
                          !.bitstream = @ \o [j \in 1..(8 - over) |-> 0],
                          !.bits = @ + (8 - over)],
                       <<>>)
              ELSE w1
    IN  IF w1.error # "none" THEN w1
        ELSE IF w2.error # "none" THEN w2
        ELSE [w2 EXCEPT !.stream = @ \o w2.buffered, !.buffered = <<>>]

\* the CodeWriter object after __init__
CodeWriterStart(special) ==
    LET w == [bitlength |-> MINBITS,
              minbits |-> MINBITS,
              maxbits |-> MAXBITS,
              special |-> special,
              bitstream |-> <<>>,
              bits |-> 0,
              buffered |-> <<>>,    \* BufferedWriter's buffer
              stream |-> <<>>,      \* the underlying stream
              error |-> "none",
              written |-> 0,        \* history: what write returned last
              codes |-> <<>>]       \* history: the codes written, each
                                    \* with its width
    IN  IF special THEN CodeWriter_write(w, <<CLEAR_CODE>>) ELSE w

\* writer.write(array) on a CodeWriter, as in its doctest
CodesWrite ==
    /\ fpc = "cwrite"
    /\ \E array \in CodeArrays :
          /\ Len(cw.codes) + Len(array) <= MaxQueued
          /\ cw' = CodeWriter_write(cw, array)
          /\ fpc' = IF cw'.error # "none" THEN "failed" ELSE "cwrite"
    /\ UNCHANGED <<run1, lzwvars, packvars, cr, lr, lw>>

\* writer.flush(final) on a CodeWriter
CodesFlush ==
    /\ fpc = "cwrite"
    /\ \E final \in BOOLEAN : cw' = CodeWriter_flush(cw, final)
    /\ fpc' = IF cw'.error # "none" THEN "failed" ELSE "flushed"
    /\ UNCHANGED <<run1, lzwvars, packvars, cr, lr, lw>>

\* the LZWWriter object after __init__, and the argument of write
LZWWriterStart(strip, special) ==
    [bitlength |-> MINBITS,
     minbits |-> MINBITS,
     maxbits |-> MAXBITS,
     special |-> special,
     codedict |-> CODETABLE,
     prefix |-> <<>>,
     offset |-> IF special THEN 2 ELSE 0,
     strip |-> strip,         \* write's argument
     k |-> 0]                 \* bytes of it the for loop has taken

\* LZWWriter.add_string
add_string(l, bytestring) ==
    LET newcode == Cardinality(DOMAIN l.codedict) + l.offset
    IN  [l EXCEPT !.codedict =
            [x \in DOMAIN @ \cup {bytestring} |->
                IF x = bytestring THEN newcode ELSE @[x]]]

\* LZWWriter.write: one iteration of its for loop
LZWWrite ==
    /\ fpc = "write"
    /\ lw.k < Len(lw.strip)
    /\ LET byte == <<lw.strip[lw.k + 1]>>
           chunk == lw.prefix \o byte
           w == CodeWriter_write(cw, <<lw.codedict[lw.prefix]>>)
       IN  IF chunk \in DOMAIN lw.codedict
           THEN /\ lw' = [lw EXCEPT !.prefix = chunk, !.k = @ + 1]
                /\ UNCHANGED <<cw, fpc>>
           ELSE /\ cw' = w
                /\ IF w.error # "none"
                   THEN lw' = lw /\ fpc' = "failed"
                   ELSE /\ lw' = [add_string(lw, chunk)
                                  EXCEPT !.prefix = byte, !.k = @ + 1]
                        /\ fpc' = "write"
    /\ UNCHANGED <<run1, lzwvars, packvars, cr, lr>>

\* LZWWriter.flush, called when write has returned
LZWFlush ==
    /\ fpc = "write"
    /\ lw.k = Len(lw.strip)
    /\ IF lw.prefix # <<>>
       THEN LET w == CodeWriter_write(cw, <<lw.codedict[lw.prefix]>>)
                f == IF w.error # "none" THEN w
                     ELSE CodeWriter_flush(w, TRUE)
            IN  /\ cw' = f
                /\ IF f.error # "none"
                   THEN lw' = lw /\ fpc' = "failed"
                   ELSE lw' = [lw EXCEPT !.prefix = <<>>]
                        /\ fpc' = "written"
       ELSE /\ fpc' = "written"
            /\ UNCHANGED <<cw, lw>>
    /\ UNCHANGED <<run1, lzwvars, packvars, cr, lr>>

\* what the writer put on the stream is handed to LZWReader (the doctests
\* of LZWWriter and LZWReader)
StartRead ==
    /\ fpc = "written"
    /\ cr' = CodeReaderStart(cw.stream, MAXBITS)
    /\ lr' = LZWReaderStart(TRUE)
    /\ fpc' = "lzw"
    /\ UNCHANGED <<run1, lzwvars, packvars, cw, lw>>

\* no run before the one under way
NoRun ==
    [done |-> FALSE, eod |-> FALSE, outstream |-> <<>>, pc |-> "idle",
     head |-> <<>>, tail |-> <<>>]

\* no lzwfilter run
FilterIdle ==
    /\ fpc = "idle"
    /\ cr = CodeReaderStart(<<>>, MAXBITS)
    /\ lr = LZWReaderStart(TRUE)
    /\ cw = CodeWriterStart(TRUE)
    /\ lw = LZWWriterStart(<<>>, TRUE)

(***************************************************************************)
(* The runs: the input, the environment setting and the arguments.         *)
(***************************************************************************)
RECURSIVE SeqsUpTo(_)
SeqsUpTo(n) ==
    IF n = 0 THEN {<<>>}
    ELSE LET shorter == SeqsUpTo(n - 1)
         IN  shorter \cup {Append(s, b) : s \in shorter, b \in AlphaBytes}

\* The bytes 0, 1, ..., 255, then 0, 3, 6, ..., then 0, 5, 10, ...: block b
\* of 256 bytes steps by 2b + 1, so no pair of neighbours occurs twice and
\* every byte but the last makes the encoder write one code.
Ramp(n) ==
    [i \in 1..n |->
        (((i - 1) % 256) * (2 * ((i - 1) \div 256) + 1)) % 256]

\* every short input with every small stripsize
ShortRuns ==
    [in : SeqsUpTo(MaxLen), eod : BOOLEAN, maxbits : MaxbitsChoices,
     stripsize : 1..MaxStrip]

\* inputs long enough for the dictionary to fill, in one strip
LongRuns ==
    [in : {Ramp(n) \o t : n \in RampLens, t \in Tails}, eod : BOOLEAN,
     maxbits : MaxbitsChoices, stripsize : {DefaultStripsize}]

\* a strip whose EOI is the code that fills the dictionary for the eighth
\* time, with 9-bit codes throughout: the EOI ends on a byte boundary
CornerStrip == 8 * 254 - 1
CornerRuns ==
    [in : {Ramp(CornerStrip), Ramp(CornerStrip + 2)}, eod : BOOLEAN,
     maxbits : {MINBITS},
     stripsize : {CornerStrip}]

\* no PackBits run
PackIdle ==
    /\ pk_in = <<>>
    /\ buffersize = 0
    /\ ppc = "idle"
    /\ p = PackStart
    /\ u = UnpackStart(<<>>, FALSE)

InitRun(r) ==
    /\ EOI_IS_EOD = r.eod
    /\ instream = r.in
    /\ minbits = MINBITS
    /\ maxbits = r.maxbits
    /\ stripsize = r.stripsize
    /\ pc = "read"
    /\ e = EncodeStart
    /\ d = DecodeIdle
    /\ PackIdle
    /\ FilterIdle
    /\ run1 = NoRun

\* encode, then decode of what it wrote
Init == \E r \in ShortRuns \cup LongRuns : InitRun(r)

\* encode alone
InitEnc == \E r \in ShortRuns \cup CornerRuns : InitRun(r)

\* no LZW run
LzwIdle ==
    /\ EOI_IS_EOD = FALSE
    /\ instream = <<>>
    /\ minbits = MINBITS
    /\ maxbits = MAXBITS
    /\ stripsize = DefaultStripsize
    /\ pc = "idle"
    /\ e = EncodeStart
    /\ d = DecodeIdle

\* alternating bytes: no two neighbours are equal
Alt(n) == [i \in 1..n |-> 1 + (i % 2)]

Rep(b, n) == [i \in 1..n |-> b]

\* every short input, with every small buffersize
ShortPackRuns == [in : SeqsUpTo(MaxPackLen), buffersize : 1..MaxBuf]

\* a long run or a long stretch without runs, between two short ends
LongPackRuns ==
    [in : {h \o m \o t : h \in SeqsUpTo(MaxEnd), t \in SeqsUpTo(MaxEnd),
                         m \in {Rep(7, n) : n \in RepLens}
                               \cup {Alt(n) : n \in AltLens}},
     buffersize : LongBuffers]

RECURSIVE RawUpTo(_)
RawUpTo(n) ==
    IF n = 0 THEN {<<>>}
    ELSE LET shorter == RawUpTo(n - 1)
         IN  shorter \cup {Append(s, b) : s \in shorter, b \in RawBytes}

\* the sample of pack's doctest, b'111aaaaaaaabbbdccc5555555555s', with
\* the default buffersize
Sample ==
    Rep(49, 3) \o Rep(97, 8) \o Rep(98, 3) \o <<100>> \o Rep(99, 3)
        \o Rep(53, 10) \o <<115>>

DocPackRuns == [in : {Sample}, buffersize : {DefaultBuffersize}]

\* pack, then unpack of what it wrote; or unpack of any short byte string
InitPack ==
    /\ LzwIdle
    /\ FilterIdle
    /\ run1 = NoRun
    /\ \/ \E r \in ShortPackRuns \cup LongPackRuns \cup DocPackRuns :
             /\ pk_in = r.in
             /\ buffersize = r.buffersize
             /\ ppc = "outer"
             /\ p = PackStart
             /\ u = UnpackStart(<<>>, FALSE)
       \/ \E raw \in RawUpTo(MaxRaw) :
             /\ pk_in = <<>>
             /\ buffersize = 0
             /\ ppc = "unpack"
             /\ p = PackStart
             /\ u = UnpackStart(raw, FALSE)

NextPack ==
    \/ PackOuter
    \/ PackRun
    \/ StartUnpack
    \/ UnpackStep
    \/ UnpackEnd

SpecPack == InitPack /\ [][NextPack]_vars

Next ==
    \/ EncReadStrip
    \/ EncByte
    \/ EncStripEnd
    \/ EncEndOfData
    \/ StartDecode
    \/ DecCode
    \/ DecReturn

NextEnc ==
    \/ EncReadStrip
    \/ EncByte
    \/ EncStripEnd
    \/ EncEndOfData

Spec == Init /\ [][Next]_vars

SpecEnc == InitEnc /\ [][NextEnc]_vars

(***************************************************************************)
(* decode alone, on LZW data that need not come from encode.               *)
(***************************************************************************)
\* the codes, each as width bits, high-order bit first
BitsOf(codes, width) ==
    [j \in 1..(width * Len(codes)) |->
        Format(codes[((j - 1) \div width) + 1], width)[((j - 1) % width) + 1]]

\* the bits as bytes, the last byte filled up with padbit
BytesOf(bits, padbit) ==
    LET n == (Len(bits) + 7) \div 8
        full == bits \o [j \in 1..(8 * n - Len(bits)) |-> padbit]
    IN  [k \in 1..n |-> BitsToInt(SubSeq(full, 8 * k - 7, 8 * k))]

RECURSIVE CodeSeqsUpTo(_)
CodeSeqsUpTo(n) ==
    IF n = 0 THEN {<<>>}
    ELSE LET shorter == CodeSeqsUpTo(n - 1)
         IN  shorter \cup {Append(s, c) : s \in shorter, c \in DecCodes}

\* what follows the first group of codes in the data
StreamTails ==
    {<<>>, <<0>>, <<255>>, BytesOf(BitsOf(<<7>>, MINBITS), 0),
     BytesOf(BitsOf(<<CLEAR_CODE, 8>>, MINBITS), 0)}

\* a few codes at 9 bits, padded with zeros or ones, and a tail
ShortStreams ==
    {BytesOf(BitsOf(cs, MINBITS), b) \o t :
        cs \in CodeSeqsUpTo(MaxCodes), b \in {0, 1}, t \in StreamTails}

\* ClearCode and the 254 codes 0..253 at 9 bits: decode stores its entry 510
\* and goes to 10 bits; then the codes given at 10 bits, padding, a tail
LongStream(codes10, padbit, tail) ==
    BytesOf(BitsOf(<<CLEAR_CODE>> \o [i \in 1..254 |-> i - 1], MINBITS)
               \o BitsOf(codes10, MINBITS + 1), padbit)
        \o tail

LongStreams ==
    {LongStream(cs, b, t) :
        cs \in {<<END_OF_INFO_CODE>>, <<7, END_OF_INFO_CODE>>},
        b \in {0, 1},
        t \in {<<>>, BytesOf(BitsOf(<<CLEAR_CODE, 8>>, MINBITS), 0)}}

DecRuns ==
    [data : ShortStreams, eod : BOOLEAN, maxbits : {MAXBITS}]
        \cup [data : LongStreams, eod : BOOLEAN, maxbits : MaxbitsChoices]

InitDec ==
    \E r \in DecRuns :
        /\ EOI_IS_EOD = r.eod
        /\ instream = <<>>
        /\ minbits = MINBITS
        /\ maxbits = r.maxbits
        /\ stripsize = DefaultStripsize
        /\ pc = "decode"
        /\ e = EncodeStart
        /\ d = DecodeStart(r.data, TRUE)
        /\ PackIdle
        /\ FilterIdle
        /\ run1 = NoRun

NextDec ==
    \/ DecCode
    \/ DecReturn

SpecDec == InitDec /\ [][NextDec]_vars

(***************************************************************************)
(* lzwfilter.CodeWriter alone: writes of arrays of codes, then flush.      *)
(***************************************************************************)
InitCodes ==
    /\ LzwIdle
    /\ PackIdle
    /\ run1 = NoRun
    /\ cr = CodeReaderStart(<<>>, MAXBITS)
    /\ lr = LZWReaderStart(TRUE)
    /\ lw = LZWWriterStart(<<>>, TRUE)
    /\ \E special \in BOOLEAN : cw = CodeWriterStart(special)
    /\ fpc = "cwrite"

NextCodes ==
    \/ CodesWrite
    \/ CodesFlush

SpecCodes == InitCodes /\ [][NextCodes]_vars

(***************************************************************************)
(* encode of strips that end around the first change of bitlength.         *)
(***************************************************************************)
\* the number of codes after a ClearCode that ends the 9-bit codes
FirstBump == Pow2(MINBITS) - CODE_SIZE - 2

BumpRuns ==
    [in : {Ramp(FirstBump - 1), Ramp(FirstBump), Ramp(FirstBump + 1)},
     eod : BOOLEAN, maxbits : MaxbitsChoices \cup {MAXBITS},
     stripsize : {FirstBump, DefaultStripsize}]

InitBump == \E r \in ShortRuns \cup BumpRuns : InitRun(r)

SpecBump == InitBump /\ [][NextEnc]_vars

(***************************************************************************)
(* encode of an input in one mode, then of the same input in the other.    *)
(***************************************************************************)
\* two strips that the table cannot shorten
ModeRuns ==
    [in : {Ramp(2 * RampStrip)}, eod : BOOLEAN, maxbits : MaxbitsChoices,
     stripsize : {RampStrip}]

InitModes == \E r \in ShortRuns \cup ModeRuns : InitRun(r)

NextModes ==
    \/ EncReadStrip
    \/ EncByte
    \/ EncStripEnd
    \/ EncEndOfData
    \/ EncodeAgain

SpecModes == InitModes /\ [][NextModes]_vars

(***************************************************************************)
(* decode of a code stream, then of the same stream with one more          *)
(* ClearCode.                                                              *)
(***************************************************************************)
RECURSIVE CodeBits(_, _)
\* bits, followed by the codes at 9 bits each; an EOI is followed by zeros
\* up to the byte boundary
CodeBits(bits, codes) ==
    IF codes = <<>> THEN bits
    ELSE LET b == bits \o Format(codes[1], MINBITS)
             n == (8 - (Len(b) % 8)) % 8
         IN  CodeBits(IF codes[1] = END_OF_INFO_CODE
                      THEN b \o [j \in 1..n |-> 0] ELSE b,
                      Tail(codes))

\* the data made of the head, which ends with a ClearCode, and the codes
\* that follow it
Stream(head, tail) == BytesOf(CodeBits(head, tail), 0)

\* at most one code and a ClearCode
ShortHeads == {CodeBits(<<>>, h \o <<CLEAR_CODE>>) : h \in CodeSeqsUpTo(1)}

\* ClearCode and the codes 0..253 at 9 bits, then a ClearCode at 10 bits
LongHead ==
    BitsOf(<<CLEAR_CODE>> \o [i \in 1..254 |-> i - 1], MINBITS)
        \o BitsOf(<<CLEAR_CODE>>, MINBITS + 1)

ClearRuns ==
    [head : ShortHeads, tail : CodeSeqsUpTo(MaxCodes - 1), eod : BOOLEAN]
        \cup [head : {LongHead}, tail : CodeSeqsUpTo(1), eod : BOOLEAN]

InitClear ==
    \E r \in ClearRuns :
        /\ EOI_IS_EOD = r.eod
        /\ instream = <<>>
        /\ minbits = MINBITS
        /\ maxbits = MAXBITS
        /\ stripsize = DefaultStripsize
        /\ pc = "decode"
        /\ e = EncodeStart
        /\ d = DecodeStart(Stream(r.head, r.tail), TRUE)
        /\ PackIdle
        /\ FilterIdle
        /\ run1 = [NoRun EXCEPT !.head = r.head, !.tail = r.tail]

\* decode has returned or raised ValueError: it is called again, on the
\* data with one more ClearCode right after the ClearCode that ends the head
DecodeAgain ==
    /\ pc \in {"done", "error"}
    /\ ~run1.done
    /\ run1.head # <<>>
    /\ run1' = [run1 EXCEPT !.done = TRUE,
                            !.eod = EOI_IS_EOD,
                            !.outstream = d.outstream,
                            !.pc = pc]
    /\ d' = DecodeStart(Stream(run1.head \o Format(CLEAR_CODE, minbits),
                               run1.tail),
                        TRUE)
    /\ pc' = "decode"
    /\ UNCHANGED <<filtervars, packvars, params, e>>

NextClear ==
    \/ DecCode
    \/ DecReturn
    \/ DecodeAgain

SpecClear == InitClear /\ [][NextClear]_vars

(***************************************************************************)
(* decode without special codes, on bytes or on codes it is given.         *)
(***************************************************************************)
\* the first test case of decode's doctest
Rosetta ==
    <<84, 79, 66, 69, 79, 82, 78, 79, 84, 256, 258, 260, 265, 259, 261, 263>>

InitPlain ==
    /\ EOI_IS_EOD \in BOOLEAN
    /\ instream = <<>>
    /\ minbits = MINBITS
    /\ stripsize = DefaultStripsize
    /\ pc = "decode"
    /\ e = EncodeStart
    /\ PackIdle
    /\ FilterIdle
    /\ run1 = NoRun
    /\ \/ \E data \in ShortStreams :
             /\ maxbits = MAXBITS
             /\ d = DecodeStart(data, FALSE)
       \/ \E codes \in CodeSeqsUpTo(MaxCodes) \cup {Rosetta} :
             /\ maxbits = MINBITS
             /\ d = DecodeCodes(codes, FALSE)

SpecPlain == InitPlain /\ [][NextDec]_vars

\* decode with and without the special codes
InitBody == InitDec \/ InitPlain

SpecBody == InitBody /\ [][NextDec]_vars

(***************************************************************************)
(* lzwfilter's readers alone, on the data decode is given.                 *)
(***************************************************************************)
InitFilter ==
    /\ LzwIdle
    /\ PackIdle
    /\ run1 = NoRun
    /\ \E r \in DecRuns :
          /\ cr = CodeReaderStart(r.data, r.maxbits)
          /\ lr = LZWReaderStart(TRUE)
          /\ cw = CodeWriterStart(TRUE)
          /\ lw = LZWWriterStart(<<>>, TRUE)
          /\ fpc \in {"codes", "lzw"}

NextFilter ==
    \/ CodesRead
    \/ LZWRead

SpecFilter == InitFilter /\ [][NextFilter]_vars

(***************************************************************************)
(* decode, or lzwfilter's readers, on the same data.                       *)
(***************************************************************************)
InitWidth == InitDec \/ InitFilter

NextWidth ==
    \/ DecCode
    \/ DecReturn
    \/ CodesRead
    \/ LZWRead

SpecWidth == InitWidth /\ [][NextWidth]_vars

(***************************************************************************)
(* decode and LZWReader side by side on the same data.                     *)
(***************************************************************************)
ReadStreams ==
    {BytesOf(BitsOf(cs, MINBITS), b) \o t :
        cs \in CodeSeqsUpTo(MaxCodes - 1), b \in {0, 1}, t \in StreamTails}

InitRead ==
    \E data \in ReadStreams, eod \in BOOLEAN :
        /\ EOI_IS_EOD = eod
        /\ instream = <<>>
        /\ minbits = MINBITS
        /\ maxbits = MAXBITS
        /\ stripsize = DefaultStripsize
        /\ pc = "decode"
        /\ e = EncodeStart
        /\ d = DecodeStart(data, TRUE)
        /\ PackIdle
        /\ fpc = "lzw"
        /\ cr = CodeReaderStart(data, MAXBITS)
        /\ lr = LZWReaderStart(TRUE)
        /\ cw = CodeWriterStart(TRUE)
        /\ lw = LZWWriterStart(<<>>, TRUE)
        /\ run1 = NoRun

NextRead ==
    \/ DecCode
    \/ DecReturn
    \/ LZWRead

SpecRead == InitRead /\ [][NextRead]_vars

(***************************************************************************)
(* LZWWriter.write and flush, then LZWReader.read of what was written.     *)
(***************************************************************************)
\* 260 bytes that give the table its entries 258..516, then the pair 0, 3
\* again, which entry 514 stands for
Repeating == Ramp(260) \o <<0, 3, 7>>

\* the argument of write
Strips ==
    SeqsUpTo(MaxLen)
        \cup {Ramp(n) \o t : n \in RampLens, t \in Tails}
        \cup {Repeating}

InitWrite ==
    /\ LzwIdle
    /\ PackIdle
    /\ run1 = NoRun
    /\ \E strip \in Strips :
          /\ fpc = "write"
          /\ cw = CodeWriterStart(TRUE)
          /\ lw = LZWWriterStart(strip, TRUE)
          /\ cr = CodeReaderStart(<<>>, MAXBITS)
          /\ lr = LZWReaderStart(TRUE)

NextWrite ==
    \/ LZWWrite
    \/ LZWFlush
    \/ StartRead
    \/ LZWRead

SpecWrite == InitWrite /\ [][NextWrite]_vars

(***************************************************************************)
(* encode, then decode, of inputs that fill several strips.                *)
(***************************************************************************)
\* a first strip long enough for the codes to grow to 10 bits, and a second
StripRuns ==
    [in : {Ramp(255) \o t : t \in Tails}, eod : BOOLEAN,
     maxbits : MaxbitsChoices, stripsize : {RampStrip}]

InitStrips == \E r \in ShortRuns \cup StripRuns : InitRun(r)

SpecStrips == InitStrips /\ [][Next]_vars

(***************************************************************************)
(* What the properties speak about.                                        *)
(***************************************************************************)
\* bit j (from 0) of the bytes encode has written
OutBit(j) == Format(e.outstream[(j \div 8) + 1], 8)[(j % 8) + 1]

\* the bit offset just after the k-th code written
EndOf(k) == e.codes[k].at + e.codes[k].width

\* the bits from the end of the k-th code to the next byte boundary were
\* written and are zero
PaddingZero(k) ==
    LET boundary == 8 * ((EndOf(k) + 7) \div 8)
    IN  /\ 8 * Len(e.outstream) >= boundary
        /\ \A j \in EndOf(k)..(boundary - 1) : OutBit(j) = 0

\* a packstrip call on a nonempty strip has just returned
StripDone == pc = "read" /\ e.strips >= 1

\* write_code(END_OF_INFO_CODE) has just returned
AfterEOI ==
    \/ ~EOI_IS_EOD /\ e.strips >= 1 /\ pc \in {"read", "encoded"}
    \/ EOI_IS_EOD /\ pc = "encoded"

NumCodes == Len(e.codes)

(***************************************************************************)
(* C1: decode applied to the output of encode writes exactly the input,    *)
(* and raises no error, also when the dictionary filled.                   *)
(***************************************************************************)
C1_RoundTrip ==
    pc \in {"done", "error"} => pc = "done" /\ d.outstream = instream

(***************************************************************************)
(* C2: the k-th code is read by decode at the width encode wrote it at.    *)
(***************************************************************************)
C2_WidthsAgree ==
    \A k \in 1..Len(d.codes) :
        k <= NumCodes /\ d.codes[k].width = e.codes[k].width

(***************************************************************************)
(* C3: every string decode stores at an index is the string encode gave    *)
(* that code in the same generation, and every code >= 258 encode wrote    *)
(* resolves in decode to the string encode's table held for it.            *)
(***************************************************************************)
C3_TablesAgree ==
    /\ d.stored # <<>> => d.stored \in e.added
    /\ \A k \in 1..Len(d.codes) :
          (k <= NumCodes /\ e.codes[k].code >= 258)
              => d.codes[k].str = e.codes[k].str

(***************************************************************************)
(* C4: unpack applied to the output of pack writes exactly pack's input.   *)
(***************************************************************************)
C4_PackRoundTrip ==
    (ppc = "done" /\ u.frompack) => u.outstream = pk_in

\* a round trip through a full literal chunk or a full replicate chunk
C4_Witness ==
    /\ ppc = "done"
    /\ u.frompack
    /\ Len(pk_in) > 128
    /\ \E i \in 1..Len(p.shipped) : p.shipped[i][1] \in {127, 129}

WellFormedChunk(bytes) ==
    /\ Len(bytes) >= 1
    /\ \/ bytes[1] \in 0..127 /\ Len(bytes) = bytes[1] + 2
       \/ bytes[1] \in 129..255 /\ Len(bytes) = 2
       \/ bytes = <<128>>

C6_ChunksWellFormed ==
    /\ \A i \in 1..Len(p.shipped) : WellFormedChunk(p.shipped[i])
    /\ p.outstream = Concat(p.shipped)

\* a literal at the limit of 128 bytes, a replicate and the no-op were
\* written in one run
C6_Witness ==
    /\ ppc = "packed"
    /\ \E i, j \in 1..Len(p.shipped) :
          /\ p.shipped[i][1] = 127 /\ Len(p.shipped[i]) = 129
          /\ p.shipped[j][1] \in 129..255
    /\ p.shipped[Len(p.shipped)] = <<128>>

C8_StripsIndependent ==
    ~EOI_IS_EOD =>
        /\ (pc = "loop" /\ e.k = 0) =>
              LET fresh == clear_string_table(EncodeStart)
              IN  /\ e.codes[e.first].code = CLEAR_CODE
                  /\ e.codes[e.first].width = minbits
                  /\ e.codes[e.first].at % 8 = 0
                  /\ e.bitstream = fresh.bitstream
                  /\ e.bitlength = fresh.bitlength
                  /\ e.writecount = fresh.writecount
                  /\ e.prefix = fresh.prefix
                  /\ e.code_from_string = fresh.code_from_string
        /\ StripDone =>
              /\ e.codes[NumCodes].code = END_OF_INFO_CODE
              /\ PaddingZero(NumCodes)
              /\ e.bitstream = <<>>
              /\ e.prefix = <<>>
              /\ e.code_from_string = EmptyTable

(***************************************************************************)
(* C9: with EOI_IS_EOD set a ClearCode is written only as the first code   *)
(* and after the dictionary fills, and EOI exactly once, as the last code  *)
(* of the whole output.                                                    *)
(***************************************************************************)
C9_ClearAndEOI ==
    EOI_IS_EOD =>
        /\ \A k \in 1..NumCodes :
              /\ e.codes[k].code = CLEAR_CODE =>
                    k = 1 \/ e.codes[k - 1].wc + 2 = Pow2(maxbits)
              /\ e.codes[k].code = END_OF_INFO_CODE =>
                    pc # "read" /\ pc # "loop" /\ k = NumCodes
        /\ pc = "encoded" => e.codes[NumCodes].code = END_OF_INFO_CODE

(***************************************************************************)
(* C10: every EOI is followed by zero bits up to the next byte boundary,   *)
(* the code after it starts on a byte boundary, and the bit buffer is      *)
(* empty once the EOI has been written.                                    *)
(***************************************************************************)
C10_AlignedAfterEOI ==
    /\ \A k \in 1..NumCodes :
          e.codes[k].code = END_OF_INFO_CODE =>
              /\ PaddingZero(k)
              /\ k < NumCodes => e.codes[k + 1].at % 8 = 0
    /\ AfterEOI => e.bitstream = <<>>

(***************************************************************************)
(* What the properties of decode speak about.                              *)
(***************************************************************************)
\* the code decode read last
LastCode == d.codes[Len(d.codes)].code

\* this step is decode reading the code c and the body running on it
\* without an error
Reads(c) ==
    /\ pc = "decode"
    /\ Len(d'.codes) = Len(d.codes) + 1
    /\ d'.codes[Len(d'.codes)].code = c
    /\ pc' = "decode"

(***************************************************************************)
(* C11: with EOI_IS_EOD set, reading an EOI writes nothing, and after it   *)
(* decode reads no byte, processes no code and writes nothing: its next    *)
(* step is its return, whatever follows in the input.                      *)
(***************************************************************************)
C11_StopsAtEOI ==
    [][ /\ (EOI_IS_EOD /\ Reads(END_OF_INFO_CODE)) =>
              d'.outstream = d.outstream /\ d'.end_of_data
        /\ (EOI_IS_EOD /\ pc = "decode" /\ d.codes # <<>>
               /\ LastCode = END_OF_INFO_CODE) =>
              /\ pc' = "done"
              /\ d'.pos = d.pos
              /\ d'.codes = d.codes
              /\ d'.outstream = d.outstream ]_vars

\* decode returned at an EOI with output written and input bytes unread
C11_Witness ==
    /\ EOI_IS_EOD
    /\ pc = "done"
    /\ d.end_of_data
    /\ d.outstream # <<>>
    /\ d.pos < Len(d.instream)

C13_InvalidCode ==
    [][ (pc = "decode" /\ Len(d'.codes) = Len(d.codes) + 1
           /\ ~nextcode(d).error) =>
            LET code == d'.codes[Len(d'.codes)].code
                size == Cardinality(DOMAIN d.codedict)
                bad == /\ code \notin DOMAIN d.codedict
                       /\ (code # size \/ d.lastvalue = None
                              \/ d.lastvalue = <<>>)
            IN  /\ (pc' = "error") <=> bad
                /\ pc' = "error" => d'.outstream = d.outstream ]_vars

\* ValueError for the code equal to the table's size right after a
\* ClearCode, output written before it
C13_Witness ==
    /\ pc = "error"
    /\ Len(d.codes) >= 3
    /\ d.codes[Len(d.codes) - 1].code = CLEAR_CODE
    /\ LastCode = Cardinality(DOMAIN d.codedict)
    /\ d.lastvalue = None
    /\ d.outstream # <<>>

\* the bits decode has not yet taken a code from: buffered or unread
BitsLeft == Len(d.bitstream) + 8 * (Len(d.instream) - d.pos)

(***************************************************************************)
(* C15: when fewer than bitlength bits are left at the end of the input,   *)
(* zero or not, nextcode yields no code and raises no error: decode        *)
(* returns with the output of the complete codes.                          *)
(***************************************************************************)
C15_PartialCodeDropped ==
    [][ (pc = "decode" /\ ~d.end_of_data /\ BitsLeft < d.bitlength) =>
            /\ pc' = "done"
            /\ d'.codes = d.codes
            /\ d'.outstream = d.outstream
            /\ d'.pos = Len(d.instream) ]_vars

\* decode returned with nonzero bits left over and output written
C15_Witness ==
    /\ pc = "done"
    /\ ~d.end_of_data
    /\ d.outstream # <<>>
    /\ d.bitstream # <<>>
    /\ \E j \in 1..Len(d.bitstream) : d.bitstream[j] = 1

\* some bit is not zero
Nonzero(bits) == \E j \in 1..Len(bits) : bits[j] # 0

\* the bits left in decode's bit buffer when this step has taken a code
\* from it: those buffered and those of the bytes the step reads, less the
\* code's
DecodeRest ==
    LET bits == d.bitstream
                  \o BitsOf(SubSeq(d.instream, d.pos + 1, d'.pos), 8)
    IN  SubSeq(bits, d.bitlength + 1, Len(bits))

\* the same for the CodeReader of LZWReader
ReaderRest ==
    LET bits == cr.bitstream
                  \o BitsOf(SubSeq(cr.stream, cr.pos + 1, cr'.pos), 8)
                  \o [j \in 1..(cr'.padded - cr.padded) |-> 0]
    IN  SubSeq(bits, cr.bitlength + 1, Len(bits))

(***************************************************************************)
(* C14: when an EOI is taken from the bit buffer and the bits left in the  *)
(* buffer are not all zero, ValueError is raised; when they are all zero   *)
(* no error is raised and the buffer is emptied, so that what is read next *)
(* starts at the next byte. In lzw.decode and in lzwfilter.LZWReader.      *)
(***************************************************************************)
C14_EOIBits ==
    [][ /\ (pc = "decode" /\ Len(d'.codes) = Len(d.codes) + 1
               /\ d'.codes[Len(d'.codes)].code = END_OF_INFO_CODE) =>
              IF Nonzero(DecodeRest)
              THEN pc' = "error" /\ d'.outstream = d.outstream
              ELSE pc' = "decode" /\ d'.bitstream = <<>>
        /\ (fpc = "lzw" /\ Len(lr'.codes) = Len(lr.codes) + 1
               /\ lr'.codes[Len(lr'.codes)] = END_OF_INFO_CODE) =>
              IF Nonzero(ReaderRest)
              THEN fpc' = "error" /\ lr'.error = "ValueError"
                   /\ lr'.buffer = lr.buffer
              ELSE fpc' = "done" /\ cr'.bitstream = <<>> ]_vars

\* both readers raised ValueError at an EOI, after the same output
C14_Witness ==
    /\ pc = "error"
    /\ LastCode = END_OF_INFO_CODE
    /\ Nonzero(d.bitstream)
    /\ fpc = "error"
    /\ lr.error = "ValueError"
    /\ Nonzero(cr.bitstream)
    /\ d.outstream # <<>>
    /\ lr.buffer = d.outstream

\* the bits the CodeReader can still take a code from: those buffered and
\* those of the next two bytes of the stream
Ahead ==
    cr.bitstream
       \o BitsOf(SubSeq(cr.stream, cr.pos + 1,
                        Min(cr.pos + 2, Len(cr.stream))), 8)

\* this step is the CodeReader returning the code c
Yields(c) ==
    \/ /\ fpc = "codes"
       /\ cr'.result = Append(cr.result, c)
    \/ /\ fpc = "lzw"
       /\ lr'.codes = Append(lr.codes, c)

\* what a step of a run that uses the CodeReader does with it
CodeReaderStep ==
    LET w == cr.bitlength
        bits == Ahead \o [j \in 1..w |-> 0]
    IN  IF Ahead = <<>>
        THEN /\ fpc' = "done"
             /\ cr'.result = cr.result
             /\ lr'.codes = lr.codes
        ELSE /\ Yields(BitsToInt(SubSeq(bits, 1, w)))
             /\ Len(Ahead) < w =>
                   /\ cr'.pos = Len(cr.stream)
                   /\ cr'.padded = cr.padded + (w - Len(Ahead))
             /\ Len(Ahead) >= w => cr'.padded = cr.padded
             /\ cr'.pos = Min(Len(cr.stream),
                              cr.pos + (w - Min(w, Len(cr.bitstream)) + 7)
                                          \div 8)
             /\ fpc = "codes" =>
                   /\ cr'.bitstream =
                         SubSeq(Ahead, w + 1,
                                Len(cr.bitstream) + 8 * (cr'.pos - cr.pos))
                   /\ fpc' = "codes"

(***************************************************************************)
(* C16: the code CodeReader returns is the next bitlength bits of the      *)
(* stream, high-order bit first; when the stream ends with fewer bits,     *)
(* but some, left, it returns them padded on the right with zero bits as   *)
(* one last code; with no bits left it returns nothing more.               *)
(***************************************************************************)
C16_CodeReader ==
    [][(fpc \in {"codes", "lzw"}) => CodeReaderStep]_vars

\* read() returned codes of which the last was padded and is not zero
C16_Witness ==
    /\ fpc = "done"
    /\ lr.codes = <<>>
    /\ Len(cr.result) >= 2
    /\ cr.padded > 0
    /\ cr.result[Len(cr.result)] # 0

(***************************************************************************)
(* C17: encode writes no code >= 2^maxbits; a ClearCode other than the one *)
(* that opens a strip or the stream is written just after a code written   *)
(* when the table would next assign 2^maxbits - 1, and every code written  *)
(* then is followed by such a ClearCode.                                   *)
(***************************************************************************)
C17_ClearAtFull ==
    \A k \in 1..NumCodes :
        /\ e.codes[k].code < Pow2(maxbits)
        /\ (e.codes[k].code = CLEAR_CODE /\ k \notin e.opens) =>
              k > 1 /\ e.codes[k - 1].next = Pow2(maxbits) - 1
        /\ (e.codes[k].code # CLEAR_CODE
               /\ e.codes[k].next = Pow2(maxbits) - 1) =>
              /\ k < NumCodes
              /\ e.codes[k + 1].code = CLEAR_CODE
              /\ (k + 1) \notin e.opens

\* the bit offset the code after the k-th starts at: the end of the k-th,
\* or the next byte boundary if the k-th is an EOI
StartAfter(k) ==
    IF e.codes[k].code = END_OF_INFO_CODE
    THEN 8 * ((EndOf(k) + 7) \div 8)
    ELSE EndOf(k)

(***************************************************************************)
(* C18: every code encode writes is < 2^bitlength for the bitlength it is  *)
(* written at and takes exactly bitlength bits of the output; every code   *)
(* decode reads is < 2^bitlength for the bitlength it is read at, which    *)
(* lies in minbits..maxbits.                                               *)
(***************************************************************************)
C18_FitsBitlength ==
    /\ \A k \in 1..NumCodes :
          /\ e.codes[k].code < Pow2(e.codes[k].width)
          /\ e.codes[k].width \in minbits..maxbits
          /\ k < NumCodes => e.codes[k + 1].at = StartAfter(k)
    /\ NumCodes >= 1 =>
          8 * Len(e.outstream) + Len(e.bitstream)
              \in {EndOf(NumCodes), StartAfter(NumCodes)}
    /\ \A k \in 1..Len(d.codes) :
          /\ d.codes[k].code < Pow2(d.codes[k].width)
          /\ d.codes[k].width \in minbits..maxbits

\* a code >= 512 was written at 10 bits and read at 10 bits
C18_Witness ==
    \E k \in 1..Len(d.codes) :
        /\ e.codes[k].code >= 512
        /\ e.codes[k].width = MINBITS + 1
        /\ d.codes[k].code = e.codes[k].code
        /\ d.codes[k].width = MINBITS + 1

\* decode is where it is right after it started or processed a ClearCode
DecodeAfterClear ==
    /\ pc = "decode"
    /\ d.codes = <<>> \/ LastCode = CLEAR_CODE

(***************************************************************************)
(* C19: right after decode starts or processes a ClearCode, bitlength is   *)
(* minbits, no previous string is set, nothing was written for the         *)
(* ClearCode and the table is the 256 single bytes and the 2 special       *)
(* entries; the code encode writes first after a ClearCode is written at   *)
(* minbits, chosen from a table of exactly the 256 single bytes.           *)
(***************************************************************************)
C19_AfterClear ==
    /\ DecodeAfterClear =>
          /\ d.bitlength = minbits
          /\ d.lastvalue = None
          /\ d.codedict = newdict(TRUE)
    /\ \A k \in 1..Len(d.codes) :
          d.codes[k].code = CLEAR_CODE => d.codes[k].str = <<>>
    /\ \A k \in 2..NumCodes :
          e.codes[k - 1].code = CLEAR_CODE =>
              /\ e.codes[k].width = minbits
              /\ e.codes[k].next = CODE_SIZE + 2

\* decode has been started
Decoding == pc \in {"decode", "done", "error"}

\* bitlength is within minbits..maxbits in encode and in decode
BitlengthInRange ==
    /\ e.bitlength \in minbits..maxbits
    /\ Decoding => d.bitlength \in minbits..maxbits

\* the widths of the codes encode wrote go down only at a ClearCode
EncodeWidthsRise ==
    \A k \in 2..NumCodes :
        e.codes[k].width < e.codes[k - 1].width =>
            e.codes[k].code = CLEAR_CODE

\* decode read a ClearCode before its k-th code and another after it
BetweenClears(k) ==
    /\ \E j \in 1..(k - 1) : d.codes[j].code = CLEAR_CODE
    /\ \E j \in (k + 1)..Len(d.codes) : d.codes[j].code = CLEAR_CODE

(***************************************************************************)
(* C20 as stated: bitlength is within minbits..maxbits in encode and in    *)
(* decode, and it goes down only with a ClearCode: written, in encode,     *)
(* read, in decode.                                                        *)
(***************************************************************************)
C20_Original ==
    /\ BitlengthInRange
    /\ EncodeWidthsRise
    /\ \A k \in 1..Len(d.codes) :
          LET after == IF k < Len(d.codes) THEN d.codes[k + 1].width
                       ELSE d.bitlength
          IN  (after < d.codes[k].width /\ BetweenClears(k)) =>
                  d.codes[k].code = CLEAR_CODE

(***************************************************************************)
(* C20 amended: as above, except that decode with EOI_IS_EOD unset also    *)
(* sets bitlength back to minbits when it reads an EOI; bitlength goes     *)
(* down at no other code, between ClearCodes or not.                       *)
(***************************************************************************)
C20_Amended ==
    /\ BitlengthInRange
    /\ EncodeWidthsRise
    /\ \A k \in 1..Len(d.codes) :
          LET after == IF k < Len(d.codes) THEN d.codes[k + 1].width
                       ELSE d.bitlength
          IN  after < d.codes[k].width =>
                  \/ d.codes[k].code = CLEAR_CODE
                  \/ /\ d.codes[k].code = END_OF_INFO_CODE
                     /\ ~EOI_IS_EOD
                     /\ after = minbits

\* decode read the EOI of the first strip at 10 bits and the ClearCode of
\* the second at 9 bits, as encode wrote them
C20_Witness ==
    /\ ~EOI_IS_EOD
    /\ \E k \in 1..(Len(d.codes) - 1) :
          /\ d.codes[k].code = END_OF_INFO_CODE
          /\ d.codes[k].width = MINBITS + 1
          /\ e.codes[k].width = MINBITS + 1
          /\ d.codes[k + 1].code = CLEAR_CODE
          /\ d.codes[k + 1].width = MINBITS
          /\ e.codes[k + 1].width = MINBITS

(***************************************************************************)
(* C21: for lzw.decode, a code stream and the same stream with one more    *)
(* ClearCode (at the width in effect, minbits) right after one of its      *)
(* ClearCodes decode to the same output, and both calls end the same way.  *)
(***************************************************************************)
C21_ExtraClear ==
    (run1.done /\ pc \in {"done", "error"})
        => (d.outstream = run1.outstream /\ pc = run1.pc)

\* the second call has processed the two ClearCodes in a row and has
\* written the strings of codes that came after them
C21_Witness ==
    /\ run1.done
    /\ pc = "done"
    /\ \E k \in 1..(Len(d.codes) - 2) :
          /\ d.codes[k].code = CLEAR_CODE
          /\ d.codes[k + 1].code = CLEAR_CODE
          /\ d.codes[k + 2].str # <<>>
    /\ d.outstream # <<>>

(***************************************************************************)
(* C22: for every input, the empty one included, what pack has written     *)
(* when it returns ends with the no-op byte 128, written once, after all   *)
(* the literal and replicate chunks; no no-op is written before the end.   *)
(***************************************************************************)
\* pack has returned
Packed == ppc = "packed" \/ (ppc \in {"unpack", "done"} /\ u.frompack)

C22_WitnessEmpty ==
    /\ ppc = "packed"
    /\ pk_in = <<>>
    /\ p.outstream = <<128>>

(***************************************************************************)
(* C23: for an input made only of maximal runs of 3..128 equal bytes and   *)
(* of single bytes that have no other single byte as a neighbour, pack     *)
(* (with its default buffersize) writes, in input order, the two bytes     *)
(* 257-k, b for each run of k copies of b and the two bytes 0, b for each  *)
(* single byte b, and no other byte.                                       *)
(***************************************************************************)
RECURSIVE RunsOf(_)
\* the maximal runs of equal bytes, each as <<count, byte>>
RunsOf(bytes) ==
    IF bytes = <<>> THEN <<>>
    ELSE LET c == RunLength(bytes)
         IN  << <<c, bytes[1]>> >> \o RunsOf(SubSeq(bytes, c + 1, Len(bytes)))

RunsAndSingles(runs) ==
    /\ \A i \in 1..Len(runs) : runs[i][1] = 1 \/ runs[i][1] \in 3..128
    /\ \A i \in 1..(Len(runs) - 1) : runs[i][1] # 1 \/ runs[i + 1][1] # 1

TwoBytesEach(runs) ==
    Concat([i \in 1..Len(runs) |->
               IF runs[i][1] = 1 THEN <<0, runs[i][2]>>
               ELSE <<257 - runs[i][1], runs[i][2]>>])

C23_RunsAndSingles ==
    (ppc = "packed" /\ buffersize = DefaultBuffersize
        /\ RunsAndSingles(RunsOf(pk_in)))
        => p.outstream = TwoBytesEach(RunsOf(pk_in))

\* what pack writes for these inputs: the same bytes and the no-op byte
C23_WithNoop ==
    (ppc = "packed" /\ buffersize = DefaultBuffersize
        /\ RunsAndSingles(RunsOf(pk_in)))
        => p.outstream = TwoBytesEach(RunsOf(pk_in)) \o <<128>>

\* pack has returned on the sample of its doctest
C23_Sample ==
    /\ ppc = "packed"
    /\ pk_in = Sample
    /\ p.outstream = <<254, 49, 249, 97, 254, 98, 0, 100, 254, 99, 247, 53,
                       0, 115, 128>>

(***************************************************************************)
(* C24: pack puts a maximal run of exactly two equal bytes inside a        *)
(* literal chunk only when the input bytes right before and right after    *)
(* the run are written in literal chunks too; in every other case the run  *)
(* is written as a replicate chunk of count 2.                             *)
(***************************************************************************)
\* how many input bytes a chunk that was written stands for
ChunkLen(c) ==
    IF c[1] < 128 THEN c[1] + 1 ELSE IF c[1] = 128 THEN 0 ELSE 257 - c[1]

RECURSIVE ChunkEnd(_)
\* how many input bytes the first j chunks written stand for
ChunkEnd(j) == IF j = 0 THEN 0 ELSE ChunkEnd(j - 1) + ChunkLen(p.shipped[j])

\* the chunk that input byte x is written in
ChunkOf(x) ==
    CHOOSE j \in 1..Len(p.shipped) : ChunkEnd(j - 1) < x /\ x <= ChunkEnd(j)

\* input byte x exists and is written in a literal chunk
InLiteral(x) == x \in 1..Len(pk_in) /\ p.shipped[ChunkOf(x)][1] < 128

\* a maximal run of exactly two equal bytes starts at input byte q
Twopeat(q) ==
    /\ q + 1 <= Len(pk_in)
    /\ pk_in[q] = pk_in[q + 1]
    /\ q = 1 \/ pk_in[q - 1] # pk_in[q]
    /\ q + 2 > Len(pk_in) \/ pk_in[q + 2] # pk_in[q]

C24_Twopeats ==
    ppc = "packed" =>
        \A q \in 1..Len(pk_in) :
            Twopeat(q) =>
                IF InLiteral(q) \/ InLiteral(q + 1)
                THEN InLiteral(q - 1) /\ InLiteral(q + 2)
                ELSE /\ ChunkOf(q) = ChunkOf(q + 1)
                     /\ p.shipped[ChunkOf(q)] = <<255, pk_in[q]>>

\* pack has written a run of two at the start of the input, followed by a
\* run of three, as a literal chunk and a replicate chunk
C24_LeadingTwopeat ==
    /\ ppc = "packed"
    /\ pk_in = <<7, 7, 8, 8, 8>>
    /\ p.outstream = <<1, 7, 7, 254, 8, 128>>

(***************************************************************************)
(* C25: for every input and every buffersize, every byte of a maximal run  *)
(* of three or more equal bytes is written by pack in a replicate chunk    *)
(* (of count 2..128), never in a literal chunk.                            *)
(***************************************************************************)
\* input byte x lies in a run of three or more equal bytes
InLongRun(x) ==
    \E a \in (x - 2)..x :
        /\ a >= 1 /\ a + 2 <= Len(pk_in)
        /\ pk_in[a] = pk_in[a + 1] /\ pk_in[a + 1] = pk_in[a + 2]

C25_LongRunsReplicated ==
    ppc = "packed" =>
        \A x \in 1..Len(pk_in) :
            InLongRun(x) => p.shipped[ChunkOf(x)][1] \in 129..255

\* pack has written a run of 129 bytes, with the default buffersize, as a
\* replicate chunk of count 128 and a literal chunk of one byte
C25_Run129 ==
    /\ ppc = "packed"
    /\ buffersize = DefaultBuffersize
    /\ pk_in = Rep(7, 129)
    /\ p.outstream = <<129, 7, 0, 7, 128>>

(***************************************************************************)
(* C26: without special codes decode starts from the 256 one-byte entries, *)
(* stores its first string at 256 and its second at 257, and handles the   *)
(* codes 256 and 257 like any other code: reading one never empties the    *)
(* table, never ends or aborts decoding unless the code is invalid, never  *)
(* sets bitlength back and never drops the bits read after it.             *)
(***************************************************************************)
\* decode is running without special codes
Plain == pc = "decode" /\ ~d.specialcodes

\* the step reads one of the codes 256 and 257
ReadsFormerSpecial ==
    /\ Plain
    /\ Len(d'.codes) = Len(d.codes) + 1
    /\ d'.codes[Len(d'.codes)].code \in {CLEAR_CODE, END_OF_INFO_CODE}

OrdinaryStep ==
    LET code == d'.codes[Len(d'.codes)].code
        size == Cardinality(DOMAIN d.codedict)
    IN  /\ \A k \in DOMAIN d.codedict :
              k \in DOMAIN d'.codedict /\ d'.codedict[k] = d.codedict[k]
        /\ ~d'.end_of_data
        /\ pc' = "error" => (code > size \/ d.lastvalue = None)
        /\ pc' = "decode" =>
              /\ d'.outstream # d.outstream
              /\ d'.lastvalue # None
              /\ d.codegenerator = None =>
                    Len(d'.bitstream) =
                        Len(d.bitstream) + 8 * (d'.pos - d.pos) - d.bitlength
        /\ d'.bitlength >= d.bitlength

C26_PlainCodes ==
    /\ [](Plain =>
            /\ \A k \in 0..255 : d.codedict[k] = <<k>>
            /\ \A k \in DOMAIN d.codedict : k >= 256 => d.codedict[k] # None
            /\ d.codes = <<>> => DOMAIN d.codedict = 0..255)
    /\ [][ReadsFormerSpecial => OrdinaryStep]_vars

\* the same for the calls that are given the codes (the doctests)
C26_GivenCodes ==
    [][(ReadsFormerSpecial /\ d.codegenerator # None) => OrdinaryStep]_vars

\* decode, given the codes of its doctest, has returned
\* b'TOBEORNOTTOBEORTOBEORNOT'
C26_Rosetta ==
    /\ pc = "done"
    /\ d.codes # <<>>
    /\ d.codegenerator = <<>>
    /\ d.outstream = <<84, 79, 66, 69, 79, 82, 78, 79, 84, 84, 79, 66, 69,
                       79, 82, 84, 79, 66, 69, 79, 82, 78, 79, 84>>

(***************************************************************************)
(* C27: for every nonempty byte string, LZWReader.read() on what           *)
(* LZWWriter.write and flush have put on the stream returns the byte       *)
(* string, also when 254 or more codes were written.                       *)
(***************************************************************************)
C27_WriterRoundTrip ==
    (fpc \in {"done", "error", "failed"} /\ lw.strip # <<>>)
        => (fpc = "done" /\ lr.buffer = lw.strip)

\* the same for the byte strings written with fewer than 254 data codes
\* (the ClearCode and the EOI are the other two codes written)
C27_FewCodes ==
    (fpc \in {"done", "error", "failed"} /\ lw.strip # <<>>
        /\ Len(cw.codes) < 256)
        => (fpc = "done" /\ lr.buffer = lw.strip)

\* the bytes b'\x07\x07\x07\x08' went through the writer and the reader
C27_ShortTrip ==
    /\ fpc = "done"
    /\ lw.strip = <<7, 7, 7, 8>>
    /\ lr.buffer = lw.strip
    /\ Len(cw.codes) = 5

\* LZWWriter never changes the width it writes at
C27_WriterAtMinbits ==
    \A k \in 1..Len(cw.codes) : cw.codes[k].width = MINBITS

(***************************************************************************)
(* C28 as stated: for every input and every stripsize, what encode writes  *)
(* with EOI_IS_EOD set (one EOI at the end of all data) is no longer, in   *)
(* bytes, than what it writes for the same input and stripsize with        *)
(* EOI_IS_EOD unset (ClearCode and EOI around every strip).                *)
(***************************************************************************)
\* encode has returned in both modes
BothModes == run1.done /\ pc = "encoded"

\* the output with EOI_IS_EOD set, and the output with it unset
SingleEOI == IF EOI_IS_EOD THEN e.outstream ELSE run1.outstream

FramedStrips == IF EOI_IS_EOD THEN run1.outstream ELSE e.outstream

C28_Original == BothModes => Len(SingleEOI) <= Len(FramedStrips)

\* the same for the nonempty inputs only
C28_NonEmpty ==
    (BothModes /\ instream # <<>>) => Len(SingleEOI) <= Len(FramedStrips)

(***************************************************************************)
(* C28 amended: for every nonempty input of at most stripsize bytes, which *)
(* is one strip, encode writes the same bytes in both modes.               *)
(***************************************************************************)
C28_Amended ==
    (BothModes /\ Len(instream) \in 1..stripsize)
        => SingleEOI = FramedStrips

\* both modes have written the same bytes for an input that fills its one
\* strip
C28_Witness ==
    /\ BothModes
    /\ Len(instream) = stripsize
    /\ stripsize >= 2
    /\ SingleEOI = FramedStrips
    /\ Len(SingleEOI) >= 4

\* two strips of bytes that the table cannot shorten: the output with
\* EOI_IS_EOD set is the longer one
C28_SingleEOILonger ==
    /\ BothModes
    /\ Len(instream) = 2 * stripsize
    /\ Len(SingleEOI) > Len(FramedStrips) + 20

(***************************************************************************)
(* C29: for a data code that is in the table, decode writes table[code]    *)
(* and, when there is a previously decoded string, stores that string plus *)
(* the first byte of what it wrote at the index equal to the table's size  *)
(* (and stores nothing when there is none); for a code equal to the        *)
(* table's size (KwK), with a previous string, it writes and stores the    *)
(* previous string plus its own first byte; either way what was written is *)
(* the new previous string.                                                *)
(***************************************************************************)
\* the code the for loop's body has just run on
ThisCode == d'.codes[Len(d'.codes)].code

\* the generator yields a code in this step and the body runs on it
BodyRuns ==
    /\ pc = "decode"
    /\ Len(d'.codes) = Len(d.codes) + 1
    /\ ~codegenerator(d).error

TableSize == Cardinality(DOMAIN d.codedict)

\* the code is in the table and has a string
InTable == ThisCode \in DOMAIN d.codedict /\ d.codedict[ThisCode] # None

\* the code is the one the next entry will get
KwK == ThisCode = TableSize /\ d.lastvalue # None

\* the table after the step is the table before it with string at its end
Stores(string) ==
    /\ DOMAIN d'.codedict = 0..TableSize
    /\ d'.codedict[TableSize] = string
    /\ \A c \in DOMAIN d.codedict : d'.codedict[c] = d.codedict[c]

\* the step writes string and makes it the previous string
Outputs(string) ==
    /\ pc' = "decode"
    /\ d'.outstream = d.outstream \o string
    /\ d'.lastvalue = string

InTableStep ==
    /\ Outputs(d.codedict[ThisCode])
    /\ \/ d.lastvalue = None /\ d'.codedict = d.codedict
       \/ d.lastvalue # None
            /\ Stores(d.lastvalue \o <<d.codedict[ThisCode][1]>>)

KwKStep ==
    /\ Outputs(d.lastvalue \o <<d.lastvalue[1]>>)
    /\ Stores(d.lastvalue \o <<d.lastvalue[1]>>)

C29_DataCodes ==
    [][BodyRuns => /\ InTable => InTableStep
                   /\ KwK => KwKStep]_vars

\* decode has just run on a KwK code, after a code that was in the table
\* and stored an entry
C29_Witness ==
    /\ pc = "decode"
    /\ Len(d.codes) >= 3
    /\ d.stored # <<>>
    /\ d.codes[Len(d.codes)].code = d.stored[2]
    /\ d.lastvalue = d.stored[3]
    /\ Len(d.lastvalue) >= 2
    /\ d.codes[Len(d.codes) - 1].code < CLEAR_CODE
    /\ d.codes[Len(d.codes) - 2].code < CLEAR_CODE

\* decode has just run on the first code after a ClearCode: nothing to store
C29_NoPrevious ==
    /\ pc = "decode"
    /\ Len(d.codes) >= 3
    /\ d.codes[Len(d.codes) - 1].code = CLEAR_CODE
    /\ d.codes[Len(d.codes)].code < CLEAR_CODE
    /\ Cardinality(DOMAIN d.codedict) = 258
    /\ d.lastvalue # None

(***************************************************************************)
(* C30: decode and LZWReader raise bitlength by one exactly in the steps   *)
(* that store an entry at an index k with k + 2 a power of two while       *)
(* bitlength < maxbits; a step that stores any other entry, or any entry   *)
(* at bitlength = maxbits, leaves bitlength as it is; so the first code    *)
(* read after entry 510 is stored is 10 bits wide.                         *)
(***************************************************************************)
PowerOfTwo(n) == \E i \in 0..16 : n = 2^i

\* the step stores one entry, at the index equal to the table's size
DecStores ==
    /\ d'.gen = d.gen
    /\ Cardinality(DOMAIN d'.codedict) = Cardinality(DOMAIN d.codedict) + 1

DecRaises ==
    /\ DecStores
    /\ PowerOfTwo(Cardinality(DOMAIN d.codedict) + 2)
    /\ d.bitlength < maxbits

DecWidths ==
    /\ DecRaises => d'.bitlength = d.bitlength + 1
    /\ (DecStores /\ ~DecRaises) => d'.bitlength = d.bitlength
    /\ d'.bitlength > d.bitlength => DecRaises

\* entry 510 is the last thing decode stored and no code was read since
DecStored510 ==
    /\ pc = "decode"
    /\ Cardinality(DOMAIN d.codedict) = 511
    /\ d.codes # <<>>
    /\ d.codes[Len(d.codes)].code \notin {CLEAR_CODE, END_OF_INFO_CODE}
    /\ maxbits >= 10

DecNextIsWide ==
    (DecStored510 /\ Len(d'.codes) = Len(d.codes) + 1)
        => d'.codes[Len(d'.codes)].width = 10

ReaderStores ==
    Cardinality(DOMAIN lr'.codedict) = Cardinality(DOMAIN lr.codedict) + 1

ReaderRaises ==
    /\ ReaderStores
    /\ PowerOfTwo(Cardinality(DOMAIN lr.codedict) + 2)
    /\ cr.bitlength < cr.maxbits

ReaderWidths ==
    /\ ReaderRaises => cr'.bitlength = cr.bitlength + 1
    /\ (ReaderStores /\ ~ReaderRaises) => cr'.bitlength = cr.bitlength
    /\ cr'.bitlength > cr.bitlength => ReaderRaises

\* the bits the code source has yet to hand out, zeros after the last byte
BitsAhead(c) ==
    c.bitstream
        \o [j \in 1..16 |->
               IF c.pos + ((j - 1) \div 8) + 1 <= Len(c.stream)
               THEN Format(c.stream[c.pos + ((j - 1) \div 8) + 1], 8)
                        [((j - 1) % 8) + 1]
               ELSE 0]

ReaderStored510 ==
    /\ fpc = "lzw"
    /\ Cardinality(DOMAIN lr.codedict) = 511
    /\ lr.oldcode \notin {NoCode, CLEAR_CODE, END_OF_INFO_CODE}
    /\ cr.maxbits >= 10

ReaderNextIsWide ==
    (ReaderStored510 /\ Len(lr'.codes) = Len(lr.codes) + 1)
        => lr'.codes[Len(lr'.codes)] = BitsToInt(SubSeq(BitsAhead(cr), 1, 10))

C30_Bitlength ==
    [][/\ DecWidths
       /\ DecNextIsWide
       /\ ReaderWidths
       /\ ReaderNextIsWide]_vars

\* decode has stored entry 510 at 9 bits and read the next code at 10 bits
C30_Witness ==
    /\ Len(d.codes) >= 256
    /\ d.codes[Len(d.codes) - 1].width = 9
    /\ d.codes[Len(d.codes)].width = 10
    /\ d.codes[Len(d.codes)].code = 7
    /\ Cardinality(DOMAIN d.codedict) = 512

\* the same for LZWReader
C30_ReaderWitness ==
    /\ Len(lr.codes) >= 256
    /\ lr.codes[Len(lr.codes)] = 7
    /\ cr.bitlength = 10
    /\ Cardinality(DOMAIN lr.codedict) = 512

\* entry 510 stored with maxbits = 9: bitlength stays 9
C30_AtMaxbits ==
    /\ Cardinality(DOMAIN d.codedict) >= 511
    /\ maxbits = 9
    /\ d.bitlength = 9

(***************************************************************************)
(* C31: encode raises bitlength, when bitlength < maxbits, right after the *)
(* write that brings the number of codes written since the last ClearCode  *)
(* to 2^bitlength - 258 (writecount + 2 = 2^bitlength, writecount          *)
(* restarting at 256), whether or not that write added a table entry: the  *)
(* code written next is one bit wider, and after any other write it has    *)
(* the same width; so when the 254th code after a ClearCode is the last    *)
(* data code of a strip, the EOI after it is 10 bits wide.                 *)
(***************************************************************************)
\* the last codes written: a step of encode writes at most three
Recent == {i \in 1..Len(e.codes) : i + 3 >= Len(e.codes)}

\* writecount after code i is 256 plus the codes written since the last
\* ClearCode
Counted(i) ==
    e.codes[i].wc = IF e.codes[i].code = CLEAR_CODE THEN CODE_SIZE
                    ELSE IF i = 1 THEN CODE_SIZE + 1
                    ELSE e.codes[i - 1].wc + 1

\* code i brought the count to 2^bitlength - 258 with bitlength < maxbits
EndsWidth(i) ==
    /\ e.codes[i].wc - CODE_SIZE = 2^(e.codes[i].width) - 258
    /\ e.codes[i].width < maxbits

\* the code written after code i is not a ClearCode
ThenCode(i) == i < Len(e.codes) /\ e.codes[i + 1].code # CLEAR_CODE

C31_BumpByCount ==
    instream # <<>> =>
        \A i \in Recent :
            /\ Counted(i)
            /\ ThenCode(i) =>
                  e.codes[i + 1].width =
                      IF EndsWidth(i) THEN e.codes[i].width + 1
                      ELSE e.codes[i].width

\* a strip's last data code was the 254th after the ClearCode and added no
\* table entry; the EOI after it is 10 bits wide
C31_Witness ==
    /\ Len(e.codes) = FirstBump + 2
    /\ e.codes[1].code = CLEAR_CODE
    /\ e.codes[FirstBump + 1].width = 9
    /\ e.codes[FirstBump + 1].wc = 510
    /\ e.codes[FirstBump + 2].code = END_OF_INFO_CODE
    /\ e.codes[FirstBump + 2].width = 10
    /\ e.codes[FirstBump + 2].next = e.codes[FirstBump + 1].next

\* the 254th code after the ClearCode added a table entry; the next data
\* code is 10 bits wide
C31_WitnessEntry ==
    /\ Len(e.codes) >= FirstBump + 2
    /\ e.codes[FirstBump + 1].width = 9
    /\ e.codes[FirstBump + 2].code < CLEAR_CODE
    /\ e.codes[FirstBump + 2].width = 10
    /\ e.codes[FirstBump + 2].next = e.codes[FirstBump + 1].next + 1

(***************************************************************************)
(* C32: the ClearCode encode writes when the dictionary fills at           *)
(* bitlength = maxbits is maxbits bits wide, and the code after that       *)
(* ClearCode is minbits wide.                                              *)
(***************************************************************************)
\* the k-th code is a ClearCode written because the dictionary filled
FullClear(k) ==
    /\ k > 1
    /\ e.codes[k].code = CLEAR_CODE
    /\ k \notin e.opens
    /\ e.codes[k - 1].width = maxbits

C32_ClearAtMaxbits ==
    \A k \in 1..NumCodes :
        FullClear(k) =>
            /\ e.codes[k].width = maxbits
            /\ k < NumCodes => e.codes[k + 1].width = minbits

\* the part that holds: the code after the ClearCode is minbits wide
C32_AfterClearAtMinbits ==
    \A k \in 1..NumCodes :
        (FullClear(k) /\ k < NumCodes) => e.codes[k + 1].width = minbits

\* a ClearCode written 9 bits wide after a 10-bit code
C32_NarrowClear ==
    \E k \in 1..NumCodes :
        /\ FullClear(k)
        /\ maxbits = 10
        /\ e.codes[k].width = 9
        /\ k < NumCodes

(***************************************************************************)
(* C33: write_code packs the codes most significant bit first in the order *)
(* they are written: the bits of a code fill the output from the offset    *)
(* where the code before it ended, earlier bits in earlier bytes and in    *)
(* higher positions of a byte; and it writes every complete byte at once,  *)
(* so fewer than 8 bits are left in bitstream after it.                    *)
(***************************************************************************)
\* the bit at offset o (from 0) of what was written, the bits still in
\* bitstream following the bytes of outstream
BitAt(o) ==
    IF o < 8 * Len(e.outstream)
    THEN (e.outstream[(o \div 8) + 1] \div 2^(7 - (o % 8))) % 2
    ELSE e.bitstream[o - 8 * Len(e.outstream) + 1]

\* the k-th code written lies at its offset, highest bit first
PackedAt(k) ==
    \A j \in 1..e.codes[k].width :
        BitAt(e.codes[k].at + j - 1)
            = (e.codes[k].code \div 2^(e.codes[k].width - j)) % 2

\* the codes looked at: all of them once encode has returned, the last
\* ones written before
Looked == IF pc = "encoded" THEN 1..NumCodes ELSE Recent

C33_Packing ==
    /\ Len(e.bitstream) < 8
    /\ \A k \in Looked :
          /\ PackedAt(k)
          /\ k < NumCodes => e.codes[k + 1].at >= EndOf(k)

\* encode has returned; the last data code, 10 bits wide, lies across three
\* bytes of the output
C33_Witness ==
    /\ pc = "encoded"
    /\ NumCodes >= 2
    /\ e.codes[NumCodes - 1].width = 10
    /\ e.codes[NumCodes - 1].at % 8 = 7
    /\ e.codes[NumCodes - 1].code \notin {0, CLEAR_CODE, END_OF_INFO_CODE}
    /\ PackedAt(NumCodes - 1)

\* a code has been written and some of its bits are still in bitstream
C33_BitsKept ==
    /\ pc = "loop"
    /\ NumCodes >= 3
    /\ Len(e.bitstream) = 7
    /\ PackedAt(NumCodes)

(***************************************************************************)
(* C34: whatever the code stream, valid or not, with or without            *)
(* ClearCodes, the table of decode never holds more than 2^maxbits         *)
(* entries.                                                                *)
(***************************************************************************)
C34_TableBounded == Cardinality(DOMAIN d.codedict) <= 2^maxbits

\* the table holds 2^maxbits entries and decode goes on
C34_TableFull ==
    /\ pc = "decode"
    /\ Cardinality(DOMAIN d.codedict) = 2^maxbits

(***************************************************************************)
(* C35: CodeWriter.write hands nothing on and returns 0 while the number   *)
(* of queued bits is not a multiple of 8; flush fills the queued bits up   *)
(* with zero bits to the next byte boundary and writes them, so that the   *)
(* bytes written are the codes, each at its bitlength, highest bit first,  *)
(* one after the other, and then the zero bits.                            *)
(***************************************************************************)
\* every code handed to the writer fits its bitlength
CodesFit == \A k \in 1..Len(cw.codes) : cw.codes[k].code < 2^(cw.codes[k].width)

\* bit o (from 0) of the codes one after the other at MINBITS bits each,
\* zero after the last
CodeBit(o) ==
    IF o \div MINBITS < Len(cw.codes)
    THEN (cw.codes[(o \div MINBITS) + 1].code
              \div 2^(MINBITS - 1 - (o % MINBITS))) % 2
    ELSE 0

\* the codes as bytes, the last byte filled up with zeros
CodeBytes ==
    [k \in 1..((MINBITS * Len(cw.codes) + 7) \div 8) |->
        BitsToInt([i \in 1..8 |-> CodeBit(8 * (k - 1) + i - 1)])]

\* a step of write that leaves bits queued hands nothing on and returns 0
QueuesOnly ==
    (fpc = "cwrite" /\ fpc' = "cwrite" /\ cw'.bits % 8 # 0) =>
        /\ cw'.buffered = cw.buffered
        /\ cw'.stream = cw.stream
        /\ cw'.written = 0
        /\ cw'.bits = cw.bits + MINBITS * (Len(cw'.codes) - Len(cw.codes))

\* flush has returned: the stream holds the codes and the zero bits
Flushed ==
    (fpc = "flushed" /\ CodesFit) =>
        /\ cw.stream = CodeBytes
        /\ cw.buffered = <<>>
        /\ cw.bits = 0
        /\ \A k \in 1..Len(cw.codes) : cw.codes[k].width = MINBITS

C35_CodeWriter == [](Flushed) /\ [][QueuesOnly]_vars

\* the doctest: six codes written with special=False, nothing handed on
\* before flush, seven bytes after it
C35_Witness ==
    /\ fpc = "flushed"
    /\ ~cw.special
    /\ Len(cw.codes) = 6
    /\ cw.codes[2].code = 258
    /\ cw.stream = <<3, 192, 129, 0, 136, 16, 24>>

\* write handed bytes on before flush: 72 bits were queued
C35_WholeBytes ==
    /\ fpc = "cwrite"
    /\ cw.written = 9
    /\ cw.bits = 0
    /\ Len(cw.buffered) = 9

\* a code wider than bitlength: to_bytes raises OverflowError
C35_Overflow == fpc = "failed" /\ cw.error = "OverflowError"

\* a code wider than bitlength is or-ed into the code before it
C35_Smeared ==
    /\ fpc = "flushed"
    /\ ~CodesFit
    /\ cw.stream # CodeBytes

(***************************************************************************)
(* C36: whenever encode writes a code for prefix, prefix is not empty and  *)
(* is a key of the table as it is then, so write_code is not given None;   *)
(* the one exception is the write at the end of an empty input with        *)
(* EOI_IS_EOD set.                                                         *)
(***************************************************************************)
\* the for loop is about to write the code of prefix: prefix + byte is not
\* in the table
LoopWrites ==
    /\ pc = "loop"
    /\ e.k < Len(e.strip)
    /\ (e.prefix \o <<e.strip[e.k + 1]>>) \notin DOMAIN e.code_from_string

\* packstrip is about to write the code of prefix after its for loop
StripEndWrites == pc = "loop" /\ e.k = Len(e.strip) /\ ~EOI_IS_EOD

\* packstrip(b'') is about to write the code of prefix
DataEndWrites == pc = "read" /\ e.pos = Len(instream) /\ EOI_IS_EOD

PrefixHasCode ==
    /\ e.prefix # <<>>
    /\ e.prefix \in DOMAIN e.code_from_string
    /\ Get(e.code_from_string, e.prefix) # NoCode

C36_PrefixInTable ==
    /\ (LoopWrites \/ StripEndWrites) => PrefixHasCode
    /\ (DataEndWrites /\ instream # <<>>) => PrefixHasCode
    /\ instream # <<>> => \A i \in Recent : Counted(i)

\* the exception: the empty input with EOI_IS_EOD set, write_code is given
\* None and then writes the EOI
C36_EmptyInput ==
    /\ instream = <<>>
    /\ EOI_IS_EOD
    /\ pc = "encoded"
    /\ e.writecount = CODE_SIZE + 2
    /\ NumCodes = 1

\* the dictionary has filled and the table was cleared inside the for loop
\* of the first strip; the code of prefix is about to be written
C36_Witness ==
    /\ LoopWrites
    /\ e.strips = 0
    /\ e.gen >= 2
    /\ PrefixHasCode
    /\ Cardinality(DOMAIN e.code_from_string) > CODE_SIZE + 1

\* the code of prefix is about to be written at the end of all data
C36_AtDataEnd == DataEndWrites /\ Len(e.prefix) >= 2 /\ PrefixHasCode

(***************************************************************************)
(* C37: unpack reports an error when its input ends in the middle of a     *)
(* run, after a literal header n with fewer than n + 1 bytes left or after *)
(* a replicate header with no byte left; it does not write a shortened run *)
(* and go on.                                                              *)
(***************************************************************************)
\* the bytes left after the header unpack is about to take
LeftAfterHeader == Len(u.instream) - (u.pos + 1)

\* unpack is about to take a header whose run the input does not hold
MidRun ==
    /\ ppc = "unpack"
    /\ u.pos < Len(u.instream)
    /\ LET n == u.instream[u.pos + 1]
       IN  \/ n \in 0..127 /\ LeftAfterHeader < n + 1
           \/ n \in 129..255 /\ LeftAfterHeader = 0

C37_ReportsEOF ==
    [][MidRun => (ppc' = "error" /\ u'.outstream = u.outstream)]_vars

\* unpack has returned without an error after a literal header 1 with one
\* byte left, which it wrote
C37_ShortLiteral ==
    /\ ppc = "done"
    /\ ~u.frompack
    /\ Len(u.instream) = 2
    /\ u.instream[1] = 1
    /\ u.outstream = <<u.instream[2]>>

\* unpack has returned without an error after a replicate header with no
\* byte left
C37_ShortReplicate ==
    /\ ppc = "done"
    /\ ~u.frompack
    /\ u.instream = <<255>>
    /\ u.outstream = <<>>

=============================================================================
